---- MODULE Spec2Model ----
(***************************************************************************)
(* Model of the statistical test advisor: the analysis coordinator of      *)
(* StatisticsApp (main thread), the statistics worker's message handler,   *)
(* StatisticalTests.runTest with its validation, and the assumption-check  *)
(* cache of StatisticalTests.checkAssumptions.                             *)
(*                                                                         *)
(* Real-valued statistics (t, F, p-values, means) are not represented; a   *)
(* result carries its test name and its integer statistics (degrees of     *)
(* freedom, group sizes).  The numeric libraries (simple-statistics,       *)
(* jStat) are taken to be loaded and working.                              *)
(***************************************************************************)
EXTENDS Integers, Sequences, FiniteSets, TLC

\* ------------------------------------------------------------------ bounds
MaxRequests == 3     \* analysis requests issued in one behaviour
MaxTicks == 3        \* clock advances in one behaviour of the cache model
MaxCalls == 3        \* checkAssumptions calls in one behaviour

\* ------------------------------------------------------- program constants
WorkerTimeoutMs == 30000
CacheTtlMs == 300000
TickMs == CacheTtlMs \div 2     \* granularity of the modelled clock

\* --------------------------------------------------------------- sequences
\* [...new Set(seq)]: the distinct elements in order of first appearance.
UniqueInOrder(s) ==
    LET firsts == SelectSeq([i \in 1..Len(s) |-> i],
                            LAMBDA i : \A j \in 1..(i - 1) : s[j] # s[i])
    IN [k \in 1..Len(firsts) |-> s[firsts[k]]]

Min2(a, b) == IF a < b THEN a ELSE b

RECURSIVE SumSeq(_)
SumSeq(s) == IF s = <<>> THEN 0 ELSE Head(s) + SumSeq(Tail(s))

RECURSIVE ProductSeq(_)
ProductSeq(s) == IF s = <<>> THEN 1 ELSE Head(s) * ProductSeq(Tail(s))

RECURSIVE JoinWith(_, _)
\* Array.join(sep) of a sequence of strings.
JoinWith(strs, sep) ==
    IF strs = <<>> THEN ""
    ELSE IF Len(strs) = 1 THEN strs[1]
    ELSE strs[1] \o sep \o JoinWith(Tail(strs), sep)

\* ------------------------------------------------------------ JS values
\* A cell of the table: a number, a string holding a number, a string that
\* parseFloat cannot read, or the empty string.
NumCell(n)  == [t |-> "num", n |-> n, s |-> ""]             \* the number n
NumStr(n)   == [t |-> "numstr", n |-> n, s |-> ToString(n)]  \* the string of n's digits
Str(s)      == [t |-> "text", n |-> 0, s |-> s]              \* a string that is no number
TextCell    == Str("abc")
EmptyCell   == [t |-> "empty", n |-> 0, s |-> ""]            \* the empty string

\* parseFloat(cell) is NaN for text and empty cells.
IsNaNCell(c) == c.t \notin {"num", "numstr"}

\* state.data: null, or an array of rows; a row has the columns "g" and "v".
NullData    == [kind |-> "null", rows |-> <<>>]
ArrayOf(rs) == [kind |-> "array", rows |-> rs]
Row(g, v)   == [g |-> g, v |-> v]

Columns == {"g", "v"}
NoColumn == ""     \* value of a column selector with nothing selected

\* ------------------------------------------------------------- test catalog
\* initializeTestsDatabase: the fields of each entry that the engine reads.
Entry(id, category, type, minGroups, maxGroups, minSampleSize) ==
    [id |-> id, category |-> category, type |-> type, minGroups |-> minGroups,
     maxGroups |-> maxGroups, minSampleSize |-> minSampleSize]

testsDatabase ==
    << Entry("independent-t-test", "parametric", "comparison", 2, 2, 2),
       Entry("paired-t-test", "parametric", "comparison", 2, 2, 2),
       Entry("one-way-anova", "parametric", "comparison", 3, 100, 2),
       Entry("mann-whitney", "nonparametric", "comparison", 2, 2, 2),
       Entry("kruskal-wallis", "nonparametric", "comparison", 3, 100, 2),
       Entry("pearson-correlation", "parametric", "association", 0, 0, 3),
       Entry("spearman-correlation", "nonparametric", "association", 0, 0, 3),
       Entry("chi-square-independence", "nonparametric", "association", 0, 0, 20),
       Entry("simple-linear-regression", "parametric", "prediction", 0, 0, 10),
       Entry("wilcoxon-signed-rank", "nonparametric", "comparison", 2, 2, 2) >>

NoTest == Entry("", "", "", 0, 0, 0)      \* null / not found

\* getTestById: the first entry with that id, or null.
getTestById(testId) ==
    IF \E i \in 1..Len(testsDatabase) : testsDatabase[i].id = testId
    THEN testsDatabase[CHOOSE i \in 1..Len(testsDatabase) :
                          /\ testsDatabase[i].id = testId
                          /\ \A j \in 1..(i - 1) : testsDatabase[j].id # testId]
    ELSE NoTest

\* ------------------------------------------------------------- recommender
\* The wizard's selections; "" is a slot left unset.
Selection(design, characteristics, samples, groups) ==
    [design |-> design, characteristics |-> characteristics, samples |-> samples,
     groups |-> groups]

\* The dataInfo argument: null, or the group and value columns.
NoDataInfo == [kind |-> "null", groups |-> <<>>, values |-> <<>>]
DataInfo(groups, values) == [kind |-> "object", groups |-> groups, values |-> values]

\* test.id.includes(word) for the two words the scoring looks for, by the ids of
\* the catalog.
IdIncludes(id, word) ==
    CASE word = "independent" -> id = "independent-t-test"
      [] word = "paired"      -> id = "paired-t-test"
      [] OTHER                -> FALSE

Bonus(cond, points) == IF cond THEN points ELSE 0

\* Lines 284-286.
DesignBonus(test, sel) ==
    Bonus(sel.design = "comparison" /\ test.type = "comparison", 3)
    + Bonus(sel.design = "association" /\ test.type = "association", 3)
    + Bonus(sel.design = "prediction" /\ test.type = "prediction", 3)

\* Lines 289-292.
CharacteristicsBonus(test, sel) ==
    Bonus(sel.characteristics = "continuous-normal" /\ test.category = "parametric", 2)
    + Bonus(sel.characteristics = "continuous-nonnormal" /\ test.category = "nonparametric", 2)
    + Bonus(sel.characteristics = "categorical" /\ test.id = "chi-square-independence", 2)
    + Bonus(sel.characteristics = "ordinal" /\ test.category = "nonparametric", 2)

\* Lines 295-296.
SamplesBonus(test, sel) ==
    Bonus(sel.samples = "independent" /\ IdIncludes(test.id, "independent"), 2)
    + Bonus(sel.samples = "paired"
            /\ (IdIncludes(test.id, "paired") \/ test.id = "wilcoxon-signed-rank"), 2)

\* (variant: the declared group count earns nothing)
NoGroupsBonus(test, sel) == 0

\* Lines 299-301.
GroupsBonus(test, sel) ==
    Bonus(sel.groups = "2" /\ test.minGroups = 2 /\ test.maxGroups = 2, 2)
    + Bonus(sel.groups = "3+" /\ test.minGroups >= 3, 2)
    + Bonus(sel.groups = "variable" /\ test.minGroups = 0, 2)

\* (variant: the data never costs points)
NoDataPenalty(test, dataInfo) == 0

\* Lines 304-315: the penalties, as a number that is subtracted.
DataPenalty(test, dataInfo) ==
    IF dataInfo.kind = "null" THEN 0
    ELSE LET uniqueGroups == UniqueInOrder(dataInfo.groups)
         IN Bonus(test.minGroups > 0 /\ Len(uniqueGroups) < test.minGroups, 5)
            + Bonus(test.maxGroups > 0 /\ Len(uniqueGroups) > test.maxGroups, 5)
            + Bonus(Len(dataInfo.values) < test.minSampleSize, 3)

Score(test, sel, dataInfo) ==
    DesignBonus(test, sel) + CharacteristicsBonus(test, sel) + SamplesBonus(test, sel)
    + GroupsBonus(test, sel) - DataPenalty(test, dataInfo)

\* getSuitabilityLevel: the tier of a score.
getSuitabilityLevel(score) ==
    IF score >= 8 THEN "excellent"
    ELSE IF score >= 6 THEN "very good"
    ELSE IF score >= 4 THEN "good"
    ELSE "acceptable"

Recommendation(test, score) ==
    [test |-> test, score |-> score, suitability |-> getSuitabilityLevel(score)]

\* The recommendations pushed by the forEach (lines 280-324), in catalog order.
Pushed(sel, dataInfo) ==
    LET all == [i \in 1..Len(testsDatabase) |->
                    Recommendation(testsDatabase[i], Score(testsDatabase[i], sel, dataInfo))]
    IN SelectSeq(all, LAMBDA r : r.score > 0)

RECURSIVE InsertByScore(_, _)
\* r put into s (descending score) after every element whose score is not lower.
InsertByScore(s, r) ==
    IF s = <<>> THEN <<r>>
    ELSE IF r.score > Head(s).score THEN <<r>> \o s
    ELSE <<Head(s)>> \o InsertByScore(Tail(s), r)

RECURSIVE SortByScore(_)
\* (variant: the list is left in catalog order)
Unsorted(s) == s

\* recommendations.sort((a, b) => b.score - a.score): a stable sort.
SortByScore(s) ==
    IF s = <<>> THEN <<>>
    ELSE InsertByScore(SortByScore(SubSeq(s, 1, Len(s) - 1)), s[Len(s)])

TopCount == 3

\* getRecommendations: score, keep the positive, sort, slice(0, 3).
getRecommendations(sel, dataInfo) ==
    LET sorted == SortByScore(Pushed(sel, dataInfo))
    IN SubSeq(sorted, 1, Min2(TopCount, Len(sorted)))

\* ---------------------------------------------------------------- outcomes
\* What a run of a test gives: a result object (test name and integer
\* statistics) or a thrown Error with its message.
NoStats == [df |-> 0, df2 |-> 0, n1 |-> 0, n2 |-> 0]
Results(test, st) == [kind |-> "results", test |-> test, error |-> "", stats |-> st]
Thrown(msg)       == [kind |-> "error", test |-> "", error |-> msg, stats |-> NoStats]
NoOutcome         == [kind |-> "none", test |-> "", error |-> "", stats |-> NoStats]

ErrNotFound     == "test not found"                 \* validateDataForTest, no entry
ErrNoData       == "no data"                        \* validateDataForTest, basic validation
ErrNoCatColumn  == "categorical column not found"
ErrNoNumColumn  == "numerical column not found"
ErrSampleSize   == "sample size too small"
ErrFewGroups    == "too few groups"
ErrTwoGroups    == "requires exactly two groups"
ErrThreeGroups  == "requires at least three groups"
ErrUnknownTest  == "unknown test"
ErrTypeError    == "TypeError"                      \* property read of undefined or null
ErrTimeout      == "computation timed out"
RunFailedPrefix == "test run failed: "

\* ------------------------------------------------- group-based computations
GroupsOf(rows) == [i \in 1..Len(rows) |-> rows[i].g]

CountIn(rows, g) == Cardinality({i \in 1..Len(rows) : rows[i].g = g})

\* Independent t-test on rows (group label, value): both implementations split
\* the values by the first two distinct labels; df = n1 + n2 - 2.
TTestOutcome(rows) ==
    LET uniqueGroups == UniqueInOrder(GroupsOf(rows))
    IN IF Len(uniqueGroups) # 2 THEN Thrown(ErrTwoGroups)
       ELSE LET n1 == CountIn(rows, uniqueGroups[1])
                n2 == CountIn(rows, uniqueGroups[2])
            IN Results("Independent Samples t-test",
                       [df |-> n1 + n2 - 2, df2 |-> 0, n1 |-> n1, n2 |-> n2])

\* Paired t-test: pairs matched by position inside the two groups; df = n - 1.
PairedTTestOutcome(rows) ==
    LET uniqueGroups == UniqueInOrder(GroupsOf(rows))
    IN IF Len(uniqueGroups) # 2 THEN Thrown(ErrTwoGroups)
       ELSE LET n == Min2(CountIn(rows, uniqueGroups[1]), CountIn(rows, uniqueGroups[2]))
            IN Results("Paired Samples t-test",
                       [df |-> n - 1, df2 |-> 0, n1 |-> n, n2 |-> n])

\* One-way ANOVA: dfBetween = k - 1, dfWithin = N - k.
AnovaOutcome(rows) ==
    LET uniqueGroups == UniqueInOrder(GroupsOf(rows))
        k == Len(uniqueGroups)
    IN IF k < 3 THEN Thrown(ErrThreeGroups)
       ELSE Results("One-Way ANOVA",
                    [df |-> k - 1, df2 |-> Len(rows) - k, n1 |-> Len(rows), n2 |-> k])

\* Mann-Whitney U: two groups, n1 and n2 reported.
MannWhitneyOutcome(rows) ==
    LET uniqueGroups == UniqueInOrder(GroupsOf(rows))
    IN IF Len(uniqueGroups) # 2 THEN Thrown(ErrTwoGroups)
       ELSE Results("Mann-Whitney U Test",
                    [df |-> 0, df2 |-> 0, n1 |-> CountIn(rows, uniqueGroups[1]),
                     n2 |-> CountIn(rows, uniqueGroups[2])])

\* Kruskal-Wallis H: at least three groups, df = k - 1.
KruskalWallisOutcome(rows) ==
    LET uniqueGroups == UniqueInOrder(GroupsOf(rows))
        k == Len(uniqueGroups)
    IN IF k < 3 THEN Thrown(ErrThreeGroups)
       ELSE Results("Kruskal-Wallis H Test",
                    [df |-> k - 1, df2 |-> 0, n1 |-> Len(rows), n2 |-> k])

\* Wilcoxon signed-rank: two groups, pairs matched by position inside them.
WilcoxonOutcome(rows) ==
    LET uniqueGroups == UniqueInOrder(GroupsOf(rows))
    IN IF Len(uniqueGroups) # 2 THEN Thrown(ErrTwoGroups)
       ELSE LET n == Min2(CountIn(rows, uniqueGroups[1]), CountIn(rows, uniqueGroups[2]))
            IN Results("Wilcoxon Signed-Rank Test",
                       [df |-> 0, df2 |-> 0, n1 |-> n, n2 |-> n])

\* The rows whose numeric cell parseFloat reads as a number.
\* Chi-square test of independence on the columns var1 and var2 of the rows:
\* df = (r - 1)(c - 1) over the distinct values of each column (a column the
\* rows do not have reads undefined in every row), n = the number of rows.
ChiSquareOutcome(rows, var1, var2) ==
    LET categories(var) == IF var \in Columns THEN {rows[i][var] : i \in 1..Len(rows)}
                           ELSE {"undefined"}
    IN Results("Chi-Square Test of Independence",
               [df |-> (Cardinality(categories(var1)) - 1) * (Cardinality(categories(var2)) - 1),
                df2 |-> 0, n1 |-> Len(rows), n2 |-> 0])

ValidRows(rows) == SelectSeq(rows, LAMBDA r : ~IsNaNCell(r.v))

\* ------------------------------------------------ StatisticalTests (direct)
\* validateDataForTest: the first failing check's errors, or <<>> when valid.
validateDataForTest(testId, data, categoricalColumn, numericalColumn) ==
    LET test == getTestById(testId)
        rows == data.rows
        colErrors ==
            (IF categoricalColumn \notin Columns /\ test.minGroups > 0
             THEN <<ErrNoCatColumn>> ELSE <<>>)
            \o (IF numericalColumn \notin Columns THEN <<ErrNoNumColumn>> ELSE <<>>)
        valid == ValidRows(rows)
        uniqueGroups == UniqueInOrder(GroupsOf(valid))
    IN IF test = NoTest THEN <<ErrNotFound>>
       ELSE IF data.kind # "array" \/ Len(rows) = 0 THEN <<ErrNoData>>
       ELSE IF colErrors # <<>> THEN colErrors
       ELSE (IF Len(valid) < test.minSampleSize THEN <<ErrSampleSize>> ELSE <<>>)
            \o (IF test.minGroups > 0 /\ Len(uniqueGroups) < test.minGroups
                THEN <<ErrFewGroups>> ELSE <<>>)

\* runTest: validation, then the test on all rows (values = parseFloat of every
\* row, not only the valid ones); any throw is rethrown with the prefix.
runTest(testId, data, categoricalColumn, numericalColumn) ==
    LET errors == validateDataForTest(testId, data, categoricalColumn, numericalColumn)
        inner ==
            IF errors # <<>> THEN Thrown(JoinWith(errors, ", "))
            ELSE CASE testId = "independent-t-test" -> TTestOutcome(data.rows)
                   [] testId = "paired-t-test"      -> PairedTTestOutcome(data.rows)
                   [] testId = "one-way-anova"      -> AnovaOutcome(data.rows)
                   [] testId = "mann-whitney"       -> MannWhitneyOutcome(data.rows)
                   [] testId = "kruskal-wallis"     -> KruskalWallisOutcome(data.rows)
                   [] testId = "wilcoxon-signed-rank" -> WilcoxonOutcome(data.rows)
                   [] testId = "chi-square-independence" ->
                          ChiSquareOutcome(data.rows, categoricalColumn, numericalColumn)
                   [] OTHER                         -> Thrown(ErrUnknownTest)
    IN IF inner.kind = "error" THEN Thrown(RunFailedPrefix \o inner.error) ELSE inner

\* ------------------------------------------------------- statistics worker
\* The message the coordinator posts, and the worker's two replies.
RunTestMessage(testId, data, catColumn, numColumn) ==
    [kind |-> "object", action |-> "runTest", testId |-> testId, data |-> data,
     catColumn |-> catColumn, numColumn |-> numColumn]

TestComplete(res) == [action |-> "testComplete", error |-> "", results |-> res]
ErrorReply(msg)   == [action |-> "error", error |-> msg, results |-> NoOutcome]
\* An exception that leaves handleTestRequest (no reply posted by it).
Escaped(msg)      == [action |-> "throw", error |-> msg, results |-> NoOutcome]

\* The rows as the worker reads them: the group is row[catColumn] (undefined,
\* one and the same value, when there is no such column) and the value is
\* parseFloat(row[numColumn]) (NaN when there is no such column).
WorkerRows(rows, catColumn, numColumn) ==
    [i \in 1..Len(rows) |->
        Row(IF catColumn \in Columns THEN rows[i].g ELSE "undefined",
            IF numColumn \in Columns THEN rows[i].v ELSE EmptyCell)]

\* handleTestRequest(data): destructures testId, data, catColumn, numColumn
\* from its argument, keeps the rows with a numeric value and runs the test;
\* replies testComplete, or error with the prefix when anything throws inside.
\* Destructuring null throws before the try block.
handleTestRequest(arg) ==
    IF arg.kind = "null" THEN Escaped(ErrTypeError)
    ELSE IF arg.kind # "object" \/ arg.data.kind # "array"
         THEN ErrorReply(RunFailedPrefix \o ErrTypeError)
    ELSE LET rows == ValidRows(WorkerRows(arg.data.rows, arg.catColumn, arg.numColumn))
             out ==
                CASE arg.testId = "independent-t-test" -> TTestOutcome(rows)
                  [] arg.testId = "paired-t-test"      -> PairedTTestOutcome(rows)
                  [] arg.testId = "one-way-anova"      -> AnovaOutcome(rows)
                  [] OTHER                             -> Thrown(ErrUnknownTest)
         IN IF out.kind = "error" THEN ErrorReply(RunFailedPrefix \o out.error)
            ELSE TestComplete(out)

\* What handleTestRequest read as test id, dataset and columns from its argument.
ReadByHandler(arg) ==
    IF arg.kind = "object"
    THEN [testId |-> arg.testId, data |-> arg.data, catColumn |-> arg.catColumn,
          numColumn |-> arg.numColumn]
    ELSE [testId |-> "undefined", data |-> [kind |-> "undefined", rows |-> <<>>],
          catColumn |-> "undefined", numColumn |-> "undefined"]

\* self.onmessage: takes action and data from the message and hands data (the
\* message's data property) to handleTestRequest; a throw becomes an error reply.
HandlerArgument(msg) == msg.data

onmessage(msg) ==
    IF msg.action = "runTest"
    THEN LET r == handleTestRequest(HandlerArgument(msg))
         IN IF r.action = "throw" THEN ErrorReply(r.error) ELSE r
    ELSE ErrorReply("unknown action")

\* ---------------------------------------------------------- sample inputs
TwoGroups   == ArrayOf(<< Row("A", NumCell(1)), Row("A", NumCell(3)),
                          Row("B", NumCell(2)), Row("B", NumCell(6)) >>)
OneGroup    == ArrayOf(<< Row("A", NumCell(1)), Row("A", NumCell(2)) >>)
ThreeGroups == ArrayOf(<< Row("A", NumCell(1)), Row("B", NumCell(2)), Row("C", NumCell(3)),
                          Row("A", NumCell(2)), Row("B", NumCell(4)), Row("C", NumCell(9)) >>)
WithText    == ArrayOf(<< Row("A", NumCell(1)), Row("A", TextCell),
                          Row("B", NumCell(2)), Row("B", NumCell(5)) >>)
LostGroup   == ArrayOf(<< Row("A", NumCell(1)), Row("A", NumCell(4)),
                          Row("B", NumCell(2)), Row("C", TextCell) >>)
EmptyData   == ArrayOf(<< >>)

Datasets == {NullData, EmptyData, TwoGroups, OneGroup, ThreeGroups, WithText, LostGroup}

\* Test ids whose computations are modelled above.
ModelledTestIds == {"independent-t-test", "paired-t-test", "one-way-anova", "mann-whitney",
                    "kruskal-wallis", "wilcoxon-signed-rank", "chi-square-independence"}

ColumnChoices == {<<"g", "v">>, <<NoColumn, "v">>, <<"g", NoColumn>>}

\* ------------------------------------------------------- numeric helpers
RECURSIVE InsertSorted(_, _)
\* x put into the ascending sequence s, after the elements equal to it.
InsertSorted(s, x) ==
    IF s = <<>> THEN <<x>>
    ELSE IF x < Head(s) THEN <<x>> \o s
    ELSE <<Head(s)>> \o InsertSorted(Tail(s), x)

RECURSIVE SortAsc(_)
\* [...values].sort((a, b) => a - b) on numbers.
SortAsc(s) == IF s = <<>> THEN <<>> ELSE InsertSorted(SortAsc(SubSeq(s, 1, Len(s) - 1)), s[Len(s)])

\* The number a cell is read as by the arithmetic of the checks.
NumberOf(c) == c.n

NumbersOf(cells) == [i \in 1..Len(cells) |-> NumberOf(cells[i])]

\* calculatePercentile(sortedValues, percentile) times 100: index =
\* (percentile / 100) * (length - 1), linear interpolation between the two
\* neighbouring order statistics (weight = fractional part of index).
calculatePercentile(sortedValues, percentile) ==
    LET index100 == percentile * (Len(sortedValues) - 1)
        lower == index100 \div 100
        weight100 == index100 % 100
        upper == IF weight100 = 0 THEN lower ELSE lower + 1
    IN IF lower = upper THEN 100 * sortedValues[lower + 1]
       ELSE sortedValues[lower + 1] * (100 - weight100) + sortedValues[upper + 1] * weight100

\* ------------------------------------------------------------------- ANOVA
\* Sums of squares are exact fractions: a sum over the groups g1..gk with N
\* values in all is kept as its numerator over AnovaScale(groups)^2.

\* A JavaScript quotient a / b of two non-negative numbers given as fractions
\* an/ad and bn/bd: 0/0 is NaN, x/0 is Infinity.
NaNValue == [kind |-> "NaN", num |-> 0, den |-> 1]
InfinityValue == [kind |-> "Infinity", num |-> 0, den |-> 1]
Number(num, den) == [kind |-> "number", num |-> num, den |-> den]

Divide(a, b) ==
    IF a.kind = "NaN" \/ b.kind = "NaN" THEN NaNValue
    ELSE IF a.kind = "Infinity" THEN (IF b.kind = "Infinity" THEN NaNValue ELSE InfinityValue)
    ELSE IF b.kind = "Infinity" THEN Number(0, 1)
    ELSE IF b.num = 0 THEN (IF a.num = 0 THEN NaNValue ELSE InfinityValue)
    ELSE Number(a.num * b.den, a.den * b.num)

\* The common denominator of the group means and the overall mean.
AnovaScale(groups) ==
    ProductSeq([g \in 1..Len(groups) |-> Len(groups[g])]) *
    SumSeq([g \in 1..Len(groups) |-> Len(groups[g])])

\* ssBetween += n * (mean - overallMean)^2 over the groups, times the scale squared.
SumOfSquaresBetween(groups) ==
    LET L == AnovaScale(groups)
        n == SumSeq([g \in 1..Len(groups) |-> Len(groups[g])])
        total == SumSeq([g \in 1..Len(groups) |-> SumSeq(groups[g])])
        dev(g) == (SumSeq(groups[g]) * L) \div Len(groups[g]) - (total * L) \div n
    IN SumSeq([g \in 1..Len(groups) |-> Len(groups[g]) * dev(g) * dev(g)])

\* ssWithin += (value - groupMean)^2 over all values, times the scale squared.
SumOfSquaresWithin(groups) ==
    LET L == AnovaScale(groups)
        dev(g, i) == groups[g][i] * L - (SumSeq(groups[g]) * L) \div Len(groups[g])
    IN SumSeq([g \in 1..Len(groups) |->
                  SumSeq([i \in 1..Len(groups[g]) |-> dev(g, i) * dev(g, i)])])

\* The statistics both ANOVA routines derive from the sums of squares:
\* msBetween = ssBetween / dfBetween, msWithin = ssWithin / dfWithin, f their quotient.
AnovaStatistics(groups) ==
    LET L == AnovaScale(groups)
        k == Len(groups)
        n == SumSeq([g \in 1..k |-> Len(groups[g])])
        ssBetween == Number(SumOfSquaresBetween(groups), L * L)
        ssWithin == Number(SumOfSquaresWithin(groups), L * L)
        msBetween == Divide(ssBetween, Number(k - 1, 1))
        msWithin == Divide(ssWithin, Number(n - k, 1))
    IN [ssBetween |-> ssBetween, ssWithin |-> ssWithin,
        dfBetween |-> k - 1, dfWithin |-> n - k,
        f |-> Divide(msBetween, msWithin)]

\* 1 - jStat.centralF.cdf(f, dfBetween, dfWithin): 1 at f = 0, below 1 for a
\* positive f, NaN for a NaN f.
CentralFPValue(f) ==
    IF f.kind = "NaN" THEN "NaN"
    ELSE IF f.kind = "number" /\ f.num = 0 THEN "1"
    ELSE "below 1"

\* StatsLib.calculateFPValue: a step table; every comparison with NaN is false.
calculateFPValue(f) ==
    IF f.kind = "Infinity" THEN "0.001"
    ELSE IF f.kind = "NaN" THEN "0.3"
    ELSE IF f.num > 10 * f.den THEN "0.001"
    ELSE IF f.num > 5 * f.den THEN "0.01"
    ELSE IF f.num > 3 * f.den THEN "0.05"
    ELSE IF f.num > 2 * f.den THEN "0.1"
    ELSE "0.3"

\* The values of each distinct group label, in order of first appearance.
SplitByGroup(values, groups) ==
    LET uniqueGroups == UniqueInOrder(groups)
    IN [g \in 1..Len(uniqueGroups) |->
           LET at == SelectSeq([i \in 1..Len(values) |-> i], LAMBDA i : groups[i] = uniqueGroups[g])
           IN [k \in 1..Len(at) |-> values[at[k]]]]

\* runOneWayANOVA(values, groups): the statistics block of the result.
runOneWayANOVA(values, groups) ==
    LET split == SplitByGroup(values, groups)
        st == AnovaStatistics(split)
    IN IF Len(split) < 3 THEN [threw |-> TRUE, statistics |-> <<>>, pValue |-> ""]
       ELSE [threw |-> FALSE, statistics |-> st, pValue |-> CentralFPValue(st.f)]

\* StatsLib.anova(groups) of the worker.
WorkerAnova(groups) ==
    LET st == AnovaStatistics(groups)
    IN [statistics |-> st, pValue |-> calculateFPValue(st.f)]

\* ------------------------------------------------------------------- ranks
\* All ranks are kept times 2, so that midranks are integers.

RECURSIVE InsertByValue(_, _, _)
\* Index x put into the index sequence s, ordered by value in vals, after the
\* indices whose value is not greater.
InsertByValue(vals, s, x) ==
    IF s = <<>> THEN <<x>>
    ELSE IF vals[x] < vals[Head(s)] THEN <<x>> \o s
    ELSE <<Head(s)>> \o InsertByValue(vals, Tail(s), x)

RECURSIVE SortedIndices(_, _)
\* values.map((value, index) => ...).sort((a, b) => a.value - b.value): the
\* indices 1..n of vals in ascending order of value (stable).
SortedIndices(vals, n) ==
    IF n = 0 THEN <<>> ELSE InsertByValue(vals, SortedIndices(vals, n - 1), n)

RECURSIVE RunEnd(_, _, _)
\* The inner while loop of calculateRanks: the last position j (from 0) of the
\* run of values equal to the one at position i.
RunEnd(sorted, i, j) ==
    IF j + 1 < Len(sorted) /\ sorted[j + 2] = sorted[i + 1] THEN RunEnd(sorted, i, j + 1) ELSE j

\* (variant: tied values get the lowest rank of their run)
LowestRank2(i, j) == 2 * (i + 1)

\* averageRank = (i + j + 2) / 2, times 2.
AverageRank2(i, j) == i + j + 2

RECURSIVE RankRuns(_, _)
\* The outer while loop of calculateRanks from position i (from 0): the ranks
\* of the sorted values from there on.
RankRuns(sorted, i) ==
    IF i >= Len(sorted) THEN <<>>
    ELSE LET j == RunEnd(sorted, i, i)
         IN [k \in 1..(j - i + 1) |-> AverageRank2(i, j)] \o RankRuns(sorted, j + 1)

\* calculateRanks(values): the rank of every value, by original index.
calculateRanks(values) ==
    LET order == SortedIndices(values, Len(values))
        sorted == [k \in 1..Len(values) |-> values[order[k]]]
        sortedRanks == RankRuns(sorted, 0)
    IN [i \in 1..Len(values) |->
            sortedRanks[CHOOSE k \in 1..Len(values) : order[k] = i]]

\* StatsLib.calculateRanks of the worker: the same loop.
WorkerCalculateRanks(values) ==
    LET order == SortedIndices(values, Len(values))
        sorted == [k \in 1..Len(values) |-> values[order[k]]]
        sortedRanks == RankRuns(sorted, 0)
    IN [i \in 1..Len(values) |->
            sortedRanks[CHOOSE k \in 1..Len(values) : order[k] = i]]

RECURSIVE TieCount(_, _, _)
\* The tie-counting while loop of the Mann-Whitney and Kruskal-Wallis ranking.
TieCount(sorted, i, tieCount) ==
    IF i + tieCount < Len(sorted) /\ sorted[i + 1] = sorted[i + tieCount + 1]
    THEN TieCount(sorted, i, tieCount + 1) ELSE tieCount

\* (variant: tied values get the rank of the first of them)
TieFirstRank2(rank, tieCount) == 2 * rank

\* averageRank = rank + (tieCount - 1) / 2, times 2.
TieAverageRank2(rank, tieCount) == 2 * rank + tieCount - 1

RECURSIVE RankTies(_, _)
\* The ranking while loop of runMannWhitneyTest and runKruskalWallisTest from
\* rank on: the ranks pushed for the sorted values.
RankTies(sorted, rank) ==
    IF rank > Len(sorted) THEN <<>>
    ELSE LET tieCount == TieCount(sorted, rank - 1, 1)
         IN [j \in 1..tieCount |-> TieAverageRank2(rank, tieCount)]
            \o RankTies(sorted, rank + tieCount)

\* The items a ranking loop has ranked: <<value, rank>> per sorted position.
Ranked(sorted) ==
    LET ranks == RankTies(sorted, 1)
    IN [k \in 1..Len(sorted) |-> <<sorted[k], ranks[k]>>]

\* runMannWhitneyTest, lines 998-1038: the values of the first group followed
\* by those of the second, sorted and ranked.
MannWhitneyRanks(values, groups) ==
    LET uniqueGroups == UniqueInOrder(groups)
        both == SelectSeq([i \in 1..Len(values) |-> i], LAMBDA i : groups[i] = uniqueGroups[1])
                \o SelectSeq([i \in 1..Len(values) |-> i], LAMBDA i : groups[i] = uniqueGroups[2])
        allValues == [k \in 1..Len(both) |-> values[both[k]]]
    IN Ranked(SortAsc(allValues))

\* runKruskalWallisTest, lines 1111-1147: all values sorted and ranked.
KruskalWallisRanks(values, groups) == Ranked(SortAsc(values))

\* calculateTieCorrection(values) on items with a value property: the quotient
\* tieSum / (n^3 - n) as numerator and denominator, 0 for n < 2.
calculateTieCorrection(items) ==
    LET n == Len(items)
        vals == {items[i].value : i \in 1..n}
        count(v) == Cardinality({i \in 1..n : items[i].value = v})
        tieSum == LET RECURSIVE Sum(_)
                      Sum(S) == IF S = {} THEN 0
                                ELSE LET v == CHOOSE x \in S : TRUE
                                     IN (IF count(v) > 1 THEN count(v) * count(v) * count(v) - count(v)
                                         ELSE 0) + Sum(S \ {v})
                  IN Sum(vals)
    IN IF n < 2 THEN [num |-> 0, den |-> 1] ELSE [num |-> tieSum, den |-> n * n * n - n]

\* ---------------------------------------------------------------- Wilcoxon
Abs(x) == IF x < 0 THEN -x ELSE x

\* The effect size r = Math.abs(z) / Math.sqrt(n) for n > 0: NaN when z is
\* undefined or NaN, Infinity when z is infinite.
EffectSizeR(z) ==
    IF z \in {"undefined", "NaN"} THEN "NaN"
    ELSE IF z = "Infinity" THEN "Infinity"
    ELSE "number"

\* z = (w - meanW) / (stdW * sqrt(1 - tieCorrection)), lines 1601-1613; w and
\* the ranks are kept times 2.
WilcoxonZ(w2, nPairs, tieCorrection) ==
    IF tieCorrection.num > 0 /\ tieCorrection.num = tieCorrection.den
    THEN (IF 2 * w2 = nPairs * (nPairs + 1) THEN "NaN" ELSE "Infinity")
    ELSE "number"

\* nPairs > 10 selects the normal approximation.
WilcoxonSmallMax == 10

\* runWilcoxonSignedRankTest(values, groups): the statistics of the result
\* (ranks, wPlus, wMinus and w times 2).
WilcoxonStatistics(values, groups) ==
    LET split == SplitByGroup(values, groups)
        n == Min2(Len(split[1]), Len(split[2]))
        differences == [i \in 1..n |-> split[1][i] - split[2][i]]
        absDifferences == [i \in 1..n |-> Abs(differences[i])]
        ranked == calculateRanks(absDifferences)
        kept == SelectSeq([i \in 1..n |-> i], LAMBDA i : differences[i] # 0)
        signedRanks == [k \in 1..Len(kept) |->
                           [value |-> differences[kept[k]],
                            absValue |-> absDifferences[kept[k]],
                            rank |-> ranked[kept[k]]]]
        wPlus == SumSeq([k \in 1..Len(kept) |->
                            IF signedRanks[k].value > 0 THEN signedRanks[k].rank ELSE 0])
        wMinus == SumSeq([k \in 1..Len(kept) |->
                             IF signedRanks[k].value > 0 THEN 0 ELSE signedRanks[k].rank])
        w == Min2(wPlus, wMinus)
        nPairs == Len(kept)
        z == IF nPairs > WilcoxonSmallMax
             THEN WilcoxonZ(w, nPairs,
                            calculateTieCorrection([k \in 1..Len(kept) |->
                                                       [value |-> signedRanks[k].absValue]]))
             ELSE "undefined"
    IN [signedRanks |-> signedRanks, wPlus |-> wPlus, wMinus |-> wMinus, w |-> w,
        nPairs |-> nPairs, nZeroes |-> n - nPairs, z |-> z, r |-> EffectSizeR(z)]

\* ------------------------------------------------------------ Mann-Whitney
\* n1 > 20 || n2 > 20 selects the normal approximation.
MannWhitneySmallMax == 20

\* z = (u - meanU) / (stdU * sqrt(1 - tieCorrection)), lines 1057-1070; u is
\* kept times 2.
MannWhitneyZ(u2, n1, n2, tieCorrection) ==
    IF tieCorrection.num > 0 /\ tieCorrection.num = tieCorrection.den
    THEN (IF u2 = n1 * n2 THEN "NaN" ELSE "Infinity")
    ELSE "number"

\* runMannWhitneyTest(values, groups) past the group check: the statistics of
\* the result (rank sums and u times 2).
MannWhitneyStatistics(values, groups) ==
    LET split == SplitByGroup(values, groups)
        ranked == MannWhitneyRanks(values, groups)
        rankOf(v) == ranked[CHOOSE k \in 1..Len(ranked) : ranked[k][1] = v][2]
        r1 == SumSeq([i \in 1..Len(split[1]) |-> rankOf(split[1][i])])
        r2 == SumSeq([i \in 1..Len(split[2]) |-> rankOf(split[2][i])])
        n1 == Len(split[1])
        n2 == Len(split[2])
        u1 == r1 - n1 * (n1 + 1)
        u2 == r2 - n2 * (n2 + 1)
        u == Min2(u1, u2)
        z == IF n1 > MannWhitneySmallMax \/ n2 > MannWhitneySmallMax
             THEN MannWhitneyZ(u, n1, n2,
                               calculateTieCorrection([k \in 1..Len(ranked) |->
                                                          [value |-> ranked[k][1]]]))
             ELSE "undefined"
    IN [r1 |-> r1, r2 |-> r2, n1 |-> n1, n2 |-> n2, u |-> u, z |-> z, r |-> EffectSizeR(z)]

\* ------------------------------------------------------- assumption checks
\* An entry of the result mapping, or its absence.  result is "computed",
\* "inapplicable" or "failed" (the catch branch); statistic is "value" or "null";
\* passed is "true", "false" or "null"; outliers is the list of <<value, index>>
\* (index from 0) of the outlier entry.
Absent == [present |-> FALSE, test |-> "", result |-> "", statistic |-> "null",
           passed |-> "null", outliers |-> <<>>]
CheckEntry(test, result, statistic, passed, outliers) ==
    [present |-> TRUE, test |-> test, result |-> result, statistic |-> statistic,
     passed |-> passed, outliers |-> outliers]

Inapplicable(test) == CheckEntry(test, "inapplicable", "null", "null", <<>>)
Failed(test) == CheckEntry(test, "failed", "null", "null", <<>>)
PassFlag(b) == IF b THEN "true" ELSE "false"

MinNormalityN == 3
MaxNormalityN == 5000
MinOutlierN == 4

\* The placeholder W of shapiroWilkTest, in hundredths.
ShapiroW100 == 90

\* calculateShapiroWilkPValue, W in hundredths, the p-value in thousandths.
calculateShapiroWilkPValue(W100) ==
    IF W100 > 95 THEN 900
    ELSE IF W100 > 90 THEN 500
    ELSE IF W100 > 85 THEN 100
    ELSE IF W100 > 80 THEN 50
    ELSE IF W100 > 75 THEN 10
    ELSE 1

\* shapiroWilkTest: inapplicable outside 3..5000 observations, else the
\* placeholder statistic and passed = pValue > 0.05.
shapiroWilkTest(values) ==
    IF Len(values) < MinNormalityN \/ Len(values) > MaxNormalityN
    THEN Inapplicable("Shapiro-Wilk")
    ELSE CheckEntry("Shapiro-Wilk", "computed", "value",
                    PassFlag(calculateShapiroWilkPValue(ShapiroW100) > 50), <<>>)

\* StatisticalTests has runOneWayANOVA but no method named oneWayANOVA.
OneWayANOVAMethodDefined == FALSE

\* leveneTest: inapplicable with fewer than two distinct groups; else it calls
\* this.oneWayANOVA(deviations, groups) inside its try block, and the catch
\* branch returns the failure entry when that call throws.
leveneTest(values, groups) ==
    IF Len(UniqueInOrder(groups)) < 2 THEN Inapplicable("Levene")
    ELSE IF ~OneWayANOVAMethodDefined THEN Failed("Levene")
    ELSE CheckEntry("Levene", "computed", "value", "true", <<>>)

\* The <<value, index>> pairs of nums outside the fence q1 - 1.5 iqr ..
\* q3 + 1.5 iqr, the quartiles given times scale.
OutsideFence(nums, q1, q3, scale) ==
    LET idx == SelectSeq([i \in 1..Len(nums) |-> i],
                         LAMBDA i : \/ 2 * scale * nums[i] < 2 * q1 - 3 * (q3 - q1)
                                    \/ 2 * scale * nums[i] > 2 * q3 + 3 * (q3 - q1))
    IN [k \in 1..Len(idx) |-> <<nums[idx[k]], idx[k] - 1>>]

\* detectOutliers: inapplicable with fewer than four observations; else the
\* values outside the IQR fence of the interpolated quartiles.
detectOutliers(values) ==
    IF Len(values) < MinOutlierN THEN Inapplicable("IQR Outlier Detection")
    ELSE LET nums == NumbersOf(values)
             sorted == SortAsc(nums)
             outliers == OutsideFence(nums, calculatePercentile(sorted, 25),
                                      calculatePercentile(sorted, 75), 100)
         IN CheckEntry("IQR Outlier Detection", "computed", "value",
                       PassFlag(Len(outliers) = 0), outliers)

\* The worker's detectOutliers: <<>> with fewer than four observations; else the
\* values outside the fence of q1 = sorted[floor(n * 0.25)] and
\* q3 = sorted[floor(n * 0.75)].
WorkerDetectOutliers(values) ==
    IF Len(values) < MinOutlierN THEN <<>>
    ELSE LET nums == NumbersOf(values)
             sorted == SortAsc(nums)
             n == Len(nums)
         IN OutsideFence(nums, sorted[(n \div 4) + 1], sorted[((3 * n) \div 4) + 1], 1)

\* The checks checkAssumptions computes (lines 356-370) for the flags in checks.
ComputeAssumptions(values, groups, checks) ==
    [normality |->
        IF checks.normality /\ Len(values) >= MinNormalityN /\ Len(values) <= MaxNormalityN
        THEN shapiroWilkTest(values) ELSE Absent,
     homogeneity |->
        IF checks.homogeneity /\ Len(groups) > 0 THEN leveneTest(values, groups) ELSE Absent,
     outliers |->
        IF checks.outliers THEN detectOutliers(values) ELSE Absent]

NoAssumptions == [normality |-> Absent, homogeneity |-> Absent, outliers |-> Absent]

\* JSON.stringify of a cell: a number as its digits, a string in quotes.
JsonCell(c) == IF c.t = "num" THEN ToString(c.n) ELSE "\"" \o c.s \o "\""

RECURSIVE JsonItems(_)
JsonItems(texts) ==
    IF texts = <<>> THEN ""
    ELSE IF Len(texts) = 1 THEN texts[1]
    ELSE texts[1] \o "," \o JsonItems(Tail(texts))

\* JSON.stringify of an array of cells.
JsonArray(cells) == "[" \o JsonItems([i \in 1..Len(cells) |-> JsonCell(cells[i])]) \o "]"

\* cacheKey (line 346): the two JSON texts joined by "-".
CacheKey(values, groups) == JsonArray(values) \o "-" \o JsonArray(groups)

\* (variant: an entry exactly five minutes old is still used)
IsFreshInclusive(timestamp, clock) == timestamp >= clock - CacheTtlMs

\* Line 351: the cached entry is still used.
IsFresh(timestamp, clock) == timestamp > clock - CacheTtlMs

ChecksSet(n, h, o) == [normality |-> n, homogeneity |-> h, outliers |-> o]

NoCall == [made |-> FALSE, values |-> <<>>, groups |-> <<>>, checks |-> ChecksSet(FALSE, FALSE, FALSE),
           returned |-> NoAssumptions, fromCache |-> FALSE, hadEntry |-> FALSE, at |-> 0,
           entryTime |-> 0, entryValues |-> <<>>, entryGroups |-> <<>>]

\* Inputs of the cache model: the value and group columns of a table.
ValuesOf(d) == [i \in 1..Len(d.rows) |-> d.rows[i].v]
LabelsOf(d) == [i \in 1..Len(d.rows) |-> Str(d.rows[i].g)]

TwoGroupsAsText == ArrayOf(<< Row("A", NumStr(1)), Row("A", NumStr(3)),
                              Row("B", NumStr(2)), Row("B", NumStr(6)) >>)
TwoGroupsOther  == ArrayOf(<< Row("A", NumCell(1)), Row("B", NumCell(3)),
                              Row("B", NumCell(2)), Row("B", NumCell(6)) >>)

AssumptionTables == {TwoGroups, TwoGroupsAsText, TwoGroupsOther}

AssumptionChecks == {ChecksSet(TRUE, FALSE, FALSE), ChecksSet(FALSE, FALSE, TRUE),
                     ChecksSet(TRUE, TRUE, TRUE)}

\* Inputs of the coordinator model.
CoordTestIds  == {"independent-t-test", "mann-whitney"}
CoordDatasets == {TwoGroups}
CoordColumns  == {<<"g", "v">>}

\* =========================================================================
\* State
\* =========================================================================
VARIABLES
    data,             \* StateManager._data
    selectedTest,     \* StateManager._selectedTest (a catalog entry or NoTest)
    results,          \* StateManager._results (an outcome or NoOutcome)
    workerBusy,       \* StateManager._workerBusy
    workerSupported,  \* typeof Worker !== 'undefined'
    statsWorker,      \* StatisticsApp.statsWorker: index into workers, 0 = null
    workers,          \* every Worker created so far
    reqs,             \* every call of runSelectedAnalysis so far
    destroyed,        \* destroy() has been called
    metadata,         \* StateManager._metadata
    wizardSelections, \* UIManager.wizardSelections
    assumptionsCache, \* StatisticalTests.assumptionsCache
    now,              \* Date.now()
    ticks,            \* clock advances so far
    ncalls,           \* checkAssumptions calls so far
    lastCall,         \* the latest checkAssumptions call and what it returned
    fn,               \* the engine function under study ("" in the other models)
    arg,              \* its arguments
    ret,              \* what it returned
    applied           \* the function has been called

coordVars == <<data, selectedTest, results, workerBusy, workerSupported, statsWorker,
               workers, reqs, destroyed, metadata, wizardSelections>>
cacheVars == <<assumptionsCache, now, ticks, ncalls, lastCall>>
callVars == <<fn, arg, ret, applied>>
vars == <<data, selectedTest, results, workerBusy, workerSupported, statsWorker,
          workers, reqs, destroyed, metadata, wizardSelections, assumptionsCache, now,
          ticks, ncalls, lastCall, fn, arg, ret, applied>>

\* A Worker as the main thread and the worker script see it.  handler is the
\* onmessage installed on the main-thread side: 0 is the one initializeWorker
\* installs (handleWorkerResponse), r > 0 is the closure runAnalysisWithWorker
\* created for request r.  inbox holds the messages posted to the worker and not
\* yet handled, outbox the replies posted by the worker and not yet delivered.
NewWorker == [alive |-> TRUE, handler |-> 0, inbox |-> <<>>, outbox |-> <<>>]

\* Worker.terminate(): the worker stops and its queued messages are discarded.
Terminated(w) == [w EXCEPT !.alive = FALSE, !.inbox = <<>>, !.outbox = <<>>]

\* The static lookup DataValidator.sanitizeInput: sanitizeInput is declared as an
\* instance method of the class, so the class object has no such property.
StaticSanitizeInputDefined == FALSE

\* set results(newResults): rejects a non-object; copies the own properties,
\* passing every string property (each result has the string property `test`)
\* through DataValidator.sanitizeInput.  threw = the setter threw.
ResultsSetter(cur, newResults) ==
    IF newResults.kind # "results" THEN [threw |-> TRUE, results |-> cur]
    ELSE IF ~StaticSanitizeInputDefined THEN [threw |-> TRUE, results |-> cur]
    ELSE [threw |-> FALSE, results |-> newResults]

\* ------------------------------------------------- StateManager: the dataset
\* Security limits of the constructor.
maxRows == 100000
maxColumns == 100

\* A row that is no object (null, a number), and a row whose prototype is not
\* Object.prototype; every other row is a plain object with its columns as fields.
NotAnObject == [notObject |-> TRUE]
ForeignPrototype == [foreignPrototype |-> TRUE]

\* Object.keys(row)
Keys(row) == DOMAIN row

\* row[column]: the label column g holds a string that is no number, every
\* other column a cell; a row without the column gives undefined.
Undefined == [t |-> "undefined", n |-> 0, s |-> ""]
CellAt(row, column) ==
    IF column \notin Keys(row) THEN Undefined
    ELSE IF column = "g" THEN Str(row.g)
    ELSE row[column]

\* DataValidator.analyzeColumn(values, columnName).type
analyzeColumn(values) ==
    LET present == SelectSeq(values, LAMBDA c : c.t \notin {"empty", "undefined"})
        numericValues == SelectSeq(present, LAMBDA c : ~IsNaNCell(c))
        stringValues == SelectSeq(present, LAMBDA c : IsNaNCell(c))
    IN IF Len(numericValues) = Len(present) THEN "numeric"
       ELSE IF Len(stringValues) = Len(present) THEN "categorical"
       ELSE "mixed"

\* The static lookup DataValidator.analyzeColumn: analyzeColumn is declared as
\* an instance method of the class, so the class object has no such property.
StaticAnalyzeColumnDefined == FALSE

NullMetadata == [kind |-> "null", rowCount |-> 0, columns |-> {}, columnTypes |-> <<>>]

\* The metadata object _updateMetadata builds for a non-empty dataset.
MetadataOf(d) ==
    [kind |-> "object", rowCount |-> Len(d.rows), columns |-> Keys(d.rows[1]),
     columnTypes |-> [c \in Keys(d.rows[1]) |->
                         analyzeColumn([i \in 1..Len(d.rows) |-> CellAt(d.rows[i], c)])]]

\* _updateMetadata() with the dataset d stored and metadata cur: null for no or
\* an empty dataset; otherwise the first column's analysis is a call of an
\* undefined property and throws before _metadata is assigned.
UpdateMetadata(d, cur) ==
    IF d.kind # "array" \/ Len(d.rows) = 0 THEN [threw |-> FALSE, metadata |-> NullMetadata]
    ELSE IF Keys(d.rows[1]) # {} /\ ~StaticAnalyzeColumnDefined
    THEN [threw |-> TRUE, metadata |-> cur]
    ELSE [threw |-> FALSE, metadata |-> MetadataOf(d)]

\* set data(newData) with the dataset cur and metadata curMeta stored: the
\* checks, then the assignment, then _updateMetadata().
DataSetter(cur, curMeta, newData) ==
    LET rows == newData.rows
        rejected == [threw |-> TRUE, data |-> cur, metadata |-> curMeta]
    IN IF newData.kind # "array" THEN rejected
       ELSE IF Len(rows) > maxRows THEN rejected
       ELSE IF Len(rows) > 0 /\ rows[1] = NotAnObject THEN rejected
       ELSE IF Len(rows) > 0 /\ Cardinality(Keys(rows[1])) > maxColumns THEN rejected
       ELSE IF \E i \in 1..Len(rows) : rows[i] \in {NotAnObject, ForeignPrototype} THEN rejected
       ELSE LET up == UpdateMetadata(newData, curMeta)
            IN [threw |-> up.threw, data |-> newData, metadata |-> up.metadata]

\* ------------------------------------------------ UIManager: wizard selections
NoSelections == [step1 |-> "", step2 |-> "", step3 |-> "", step4 |-> ""]

\* stepId.split('-')[1] appended to "step".
StepKey(stepId) ==
    CASE stepId = "step-1" -> "step1"
      [] stepId = "step-2" -> "step2"
      [] stepId = "step-3" -> "step3"
      [] stepId = "step-4" -> "step4"

\* updateWizardState(stepId, value) on the selections sel.
updateWizardState(sel, stepId, value) == [sel EXCEPT ![StepKey(stepId)] = value]

\* getWizardSelections()
getWizardSelections(sel) == Selection(sel.step1, sel.step2, sel.step3, sel.step4)

\* (variant: the busy flag is not consulted)
UseWorkerIgnoringBusy == statsWorker # 0

\* runSelectedAnalysis line 737: the request goes to the worker.
UseWorker == statsWorker # 0 /\ ~workerBusy

\* StateManager.reset(): the fields it clears.
ResetState ==
    /\ data' = NullData
    /\ selectedTest' = NoTest
    /\ results' = NoOutcome
    /\ workerBusy' = FALSE
    /\ metadata' = NullMetadata

\* A request record.  Fields after `timer` are history of the request, not
\* program state: the worker flag and busy flag seen when it was issued, what
\* runTest gives for its inputs, whether its own reply reached the main thread
\* (and whether that was after its timer fired), which request's reply settled it,
\* whether its results were stored (and whether that happened after a request
\* issued later had stored its own), whether reset() ran since it was dispatched /
\* since its timer fired.
NewRequest(testId, path, out) ==
    [testId |-> testId, path |-> path, worker |-> IF path = "worker" THEN statsWorker ELSE 0,
     status |-> IF path = "worker" THEN "pending"
                ELSE IF out.kind = "results" THEN "resolved" ELSE "rejected",
     outcome |-> IF path = "worker" THEN NoOutcome ELSE out,
     timer |-> IF path = "worker" THEN "armed" ELSE "none",
     hadWorker |-> statsWorker # 0, wasBusy |-> workerBusy,
     direct |-> out, posted |-> path = "worker",
     answered |-> FALSE, answeredLate |-> FALSE, lateTimer |-> FALSE, settledBy |-> 0,
     stored |-> FALSE, storedLate |-> FALSE, resetSinceDispatch |-> FALSE, resetSinceTimeout |-> FALSE]

\* The continuation of runSelectedAnalysis after its await resolved with out
\* (lines 745-762): store the results, then the selected test.
StoreResults(testId, out) ==
    LET set == ResultsSetter(results, out)
    IN /\ results' = set.results
       /\ selectedTest' = IF set.threw THEN selectedTest ELSE getTestById(testId)

Stored(out) == ~ResultsSetter(results, out).threw

\* =========================================================================
\* The analysis coordinator (StatisticsApp) and the worker
\* =========================================================================
\* initializeWorker on the workers ws: a new Worker with the default handler
\* becomes statsWorker when workers are supported, else nothing changes.
initializeWorker(ws) ==
    IF workerSupported
    THEN [workers |-> Append(ws, NewWorker), statsWorker |-> Len(ws) + 1]
    ELSE [workers |-> ws, statsWorker |-> statsWorker]

\* (variant: the worker is left running)
TerminateNothing(ws) == ws

\* this.statsWorker.terminate() on the workers ws.
TerminateStatsWorker(ws) ==
    IF statsWorker # 0 THEN [ws EXCEPT ![statsWorker] = Terminated(@)] ELSE ws

InitApp ==
    /\ data = NullData
    /\ selectedTest = NoTest
    /\ results = NoOutcome
    /\ workerBusy = FALSE
    /\ workerSupported \in BOOLEAN
    /\ workers = IF workerSupported THEN <<NewWorker>> ELSE <<>>
    /\ statsWorker = IF workerSupported THEN 1 ELSE 0
    /\ reqs = <<>>
    /\ destroyed = FALSE
    /\ metadata = NullMetadata
    /\ wizardSelections = NoSelections
    /\ assumptionsCache = {}
    /\ now = CacheTtlMs
    /\ ticks = 0
    /\ ncalls = 0
    /\ lastCall = NoCall

\* No engine function is under study.
NoCallYet ==
    /\ fn = ""
    /\ arg = <<>>
    /\ ret = <<>>
    /\ applied = FALSE

Init == InitApp /\ NoCallYet

\* The data setter with a parsed table (file upload, manual data, sample data).
LoadData(d) ==
    /\ data # d
    /\ data' = DataSetter(data, metadata, d).data
    /\ metadata' = DataSetter(data, metadata, d).metadata
    /\ UNCHANGED <<selectedTest, results, workerBusy, workerSupported, statsWorker,
                   workers, reqs, destroyed, wizardSelections, cacheVars, callVars>>

\* reset() as the requests' history sees it.
NoteReset(rq) ==
    [i \in 1..Len(rq) |->
        [rq[i] EXCEPT !.resetSinceDispatch = (rq[i].path = "worker"),
                      !.resetSinceTimeout = (rq[i].timer = "fired")]]

\* clearData, confirmed by the user: state.reset().
ClearData ==
    /\ ResetState
    /\ reqs' = NoteReset(reqs)
    /\ UNCHANGED <<workerSupported, statsWorker, workers, destroyed, wizardSelections,
                   cacheVars, callVars>>

\* destroy(): terminate the worker if there is one, then state.reset().
Destroy ==
    /\ ~destroyed
    /\ destroyed' = TRUE
    /\ workers' = TerminateStatsWorker(workers)
    /\ ResetState
    /\ reqs' = NoteReset(reqs)
    /\ UNCHANGED <<workerSupported, statsWorker, wizardSelections, cacheVars, callVars>>

\* runAnalysisWithWorker for the new request r: set the busy flag, arm the 30 s
\* timer, install the request's onmessage on the current worker, post the
\* message (a terminated worker drops it).
runAnalysisWithWorker(r, testId, catColumn, numColumn) ==
    LET item == [req |-> r, msg |-> RunTestMessage(testId, data, catColumn, numColumn)]
    IN /\ workerBusy' = TRUE
       /\ workers' = [workers EXCEPT
                         ![statsWorker].handler = r,
                         ![statsWorker].inbox =
                             IF workers[statsWorker].alive THEN Append(@, item) ELSE @]
       /\ reqs' = Append(reqs, NewRequest(testId, "worker",
                                          runTest(testId, data, catColumn, numColumn)))
       /\ UNCHANGED <<results, selectedTest>>

\* The main-thread branch of runSelectedAnalysis: await runTest, then store.
RunDirect(testId, catColumn, numColumn) ==
    LET out == runTest(testId, data, catColumn, numColumn)
        rec == NewRequest(testId, "direct", out)
    IN /\ reqs' = Append(reqs, [rec EXCEPT !.stored = out.kind = "results" /\ Stored(out)])
       /\ IF out.kind = "results" THEN StoreResults(testId, out)
          ELSE UNCHANGED <<results, selectedTest>>
       /\ UNCHANGED <<workerBusy, workers>>

\* runSelectedAnalysis for the selected recommendation card's test id.
RunSelectedAnalysis(testId, catColumn, numColumn) ==
    /\ Len(reqs) < MaxRequests
    /\ getTestById(testId) # NoTest
    /\ IF UseWorker
       THEN runAnalysisWithWorker(Len(reqs) + 1, testId, catColumn, numColumn)
       ELSE RunDirect(testId, catColumn, numColumn)
    /\ UNCHANGED <<data, metadata, wizardSelections, workerSupported, statsWorker, destroyed, cacheVars, callVars>>

\* The worker script handles the oldest message posted to it and posts its reply.
WorkerCompute(w) ==
    /\ workers[w].alive
    /\ workers[w].inbox # <<>>
    /\ LET m == Head(workers[w].inbox)
           item == [req |-> m.req, reply |-> onmessage(m.msg), sent |-> m.msg,
                    read |-> ReadByHandler(HandlerArgument(m.msg))]
       IN workers' = [workers EXCEPT ![w].inbox = Tail(@), ![w].outbox = Append(@, item)]
    /\ UNCHANGED <<data, metadata, wizardSelections, selectedTest, results, workerBusy, workerSupported, statsWorker,
                   reqs, destroyed, cacheVars, callVars>>

\* The onmessage closure of request h receives the event ev: clear the timer,
\* clear the busy flag, reject with the carried error or resolve with the
\* carried results (a settled promise stays as it is).
SettleByMessage(rec, ev, from, later) ==
    LET cleared == [rec EXCEPT !.timer = IF @ = "armed" THEN "cleared" ELSE @]
    IN IF rec.status # "pending" THEN cleared
       ELSE IF ev.error # ""
       THEN [cleared EXCEPT !.status = "rejected", !.outcome = Thrown(ev.error),
                            !.settledBy = from]
       ELSE [cleared EXCEPT !.status = "resolved", !.outcome = ev.results,
                            !.settledBy = from,
                            !.stored = Stored(ev.results),
                            !.storedLate = Stored(ev.results) /\ later]

\* A reply of worker w is delivered to the main thread and handled by the
\* onmessage currently installed on w.
WorkerResponse(w) ==
    /\ workers[w].alive
    /\ workers[w].outbox # <<>>
    /\ LET item == Head(workers[w].outbox)
           ev == item.reply
           h == workers[w].handler
           noted == [reqs EXCEPT ![item.req].answered = TRUE,
                                 ![item.req].answeredLate = @ \/ reqs[item.req].timer = "fired"]
       IN /\ workers' = [workers EXCEPT ![w].outbox = Tail(@)]
          /\ IF h = 0
             THEN \* handleWorkerResponse
                  /\ reqs' = noted
                  /\ results' = IF ev.action = "testComplete"
                                THEN ResultsSetter(results, ev.results).results
                                ELSE results
                  /\ UNCHANGED <<selectedTest, workerBusy>>
             ELSE /\ reqs' = [noted EXCEPT ![h] = SettleByMessage(@, ev, item.req,
                                                      \E q \in (h + 1)..Len(reqs) : reqs[q].stored)]
                  /\ workerBusy' = FALSE
                  /\ IF reqs[h].status = "pending" /\ ev.error = ""
                     THEN StoreResults(reqs[h].testId, ev.results)
                     ELSE UNCHANGED <<results, selectedTest>>
    /\ UNCHANGED <<data, metadata, wizardSelections, workerSupported, statsWorker, destroyed, cacheVars, callVars>>

\* (variant: the timer callback clears the busy flag)
TimeoutBusyCleared == FALSE

\* The busy flag after the timer callback (lines 775-779): the callback does
\* not touch it.
TimeoutBusy == workerBusy

\* The 30 s timer of request r fires (timers of equal delay fire in the order
\* they were armed): terminate the current worker, initializeWorker, reject.
Timeout(r) ==
    /\ reqs[r].timer = "armed"
    /\ \A q \in 1..(r - 1) : reqs[q].timer # "armed"
    /\ LET restarted == initializeWorker(TerminateStatsWorker(workers))
       IN /\ workers' = restarted.workers
          /\ statsWorker' = restarted.statsWorker
    /\ reqs' = [reqs EXCEPT ![r].timer = "fired",
                            ![r].status = IF @ = "pending" THEN "rejected" ELSE @,
                            ![r].outcome = IF reqs[r].status = "pending"
                                           THEN Thrown(ErrTimeout) ELSE @]
    /\ workerBusy' = TimeoutBusy
    /\ UNCHANGED <<data, metadata, wizardSelections, selectedTest, results, workerSupported, destroyed, cacheVars, callVars>>

Next ==
    \/ \E d \in CoordDatasets : LoadData(d)
    \/ ClearData
    \/ \E t \in CoordTestIds, c \in CoordColumns : RunSelectedAnalysis(t, c[1], c[2])
    \/ \E w \in 1..Len(workers) : WorkerCompute(w)
    \/ \E w \in 1..Len(workers) : WorkerResponse(w)
    \/ \E r \in 1..Len(reqs) : Timeout(r)

Spec == Init /\ [][Next]_vars

\* The coordinator with destroy() called at some point.
NextLifecycle == Next \/ Destroy

SpecLifecycle == Init /\ [][NextLifecycle]_vars

\* =========================================================================
\* checkAssumptions and its cache
\* =========================================================================
\* Date.now() advances.
Tick ==
    /\ ticks < MaxTicks
    /\ ticks' = ticks + 1
    /\ now' = now + TickMs
    /\ UNCHANGED <<callVars, coordVars, assumptionsCache, ncalls, lastCall>>

\* Map.set: the entry of this key is replaced.
CachePut(cache, entry) == {e \in cache : e.key # entry.key} \cup {entry}

\* checkAssumptions(values, groups, checks): a cached entry of the key that is
\* still fresh is returned as it is; else the requested checks are computed,
\* stored under the key with the current time, and returned.  An entry also
\* keeps the payload it was computed for (history, not program state).
CheckAssumptions(values, groups, checks) ==
    LET cacheKey == CacheKey(values, groups)
        hit == \E e \in assumptionsCache : e.key = cacheKey
        cached == CHOOSE e \in assumptionsCache : e.key = cacheKey
        useCached == hit /\ IsFresh(cached.timestamp, now)
        computed == ComputeAssumptions(values, groups, checks)
        call == [made |-> TRUE, values |-> values, groups |-> groups, checks |-> checks,
                 returned |-> IF useCached THEN cached.results ELSE computed,
                 fromCache |-> useCached, hadEntry |-> hit, at |-> now,
                 entryTime |-> IF hit THEN cached.timestamp ELSE 0,
                 entryValues |-> IF hit THEN cached.values ELSE <<>>,
                 entryGroups |-> IF hit THEN cached.groups ELSE <<>>]
    IN /\ ncalls < MaxCalls
       /\ ncalls' = ncalls + 1
       /\ lastCall' = call
       /\ assumptionsCache' =
            IF useCached THEN assumptionsCache
            ELSE CachePut(assumptionsCache,
                          [key |-> cacheKey, results |-> computed, timestamp |-> now,
                           values |-> values, groups |-> groups])
       /\ UNCHANGED <<callVars, coordVars, now, ticks>>

NextAssumptions ==
    \/ Tick
    \/ \E d \in AssumptionTables, c \in AssumptionChecks :
          CheckAssumptions(ValuesOf(d), LabelsOf(d), c)

\* The coordinator plays no part here: one initial state of it is enough.
InitAssumptions == Init /\ workerSupported

SpecAssumptions == InitAssumptions /\ [][NextAssumptions]_vars

\* =========================================================================
\* The engine's functions, each called once on an input
\* =========================================================================
MaxLen == 5          \* longest sample drawn from SampleNumbers

SampleNumbers == {0, 1, 5}

\* The sequences over S of length n, and of length at most n.
SeqsOfLen(S, n) == [1..n -> S]
SeqsUpTo(S, n) == UNION {SeqsOfLen(S, k) : k \in 0..n}

NumCells(nums) == [i \in 1..Len(nums) |-> NumCell(nums[i])]

\* Samples with the values of the documented outlier examples.
Example100 == <<1, 2, 3, 4, 5, 100>>
ExamplePlain == <<1, 2, 3, 4>>

Samples == SeqsUpTo(SampleNumbers, MaxLen) \cup {Example100, ExamplePlain}

\* Group columns for a sample of n values: none, one group, two groups in turn.
NoLabels(n) == <<>>
OneLabel(n) == [i \in 1..n |-> Str("A")]
TwoLabels(n) == [i \in 1..n |-> IF i % 2 = 1 THEN Str("A") ELSE Str("B")]
LabelColumns(n) == {NoLabels(n), OneLabel(n), TwoLabels(n)}

EngineChecks == {ChecksSet(TRUE, FALSE, FALSE), ChecksSet(FALSE, TRUE, FALSE),
                 ChecksSet(FALSE, FALSE, TRUE), ChecksSet(TRUE, TRUE, TRUE)}

\* Samples at and above the upper limit of the normality check.
LongSample(n) == [i \in 1..n |-> NumCell(1)]

AssumptionInputs ==
    {[values |-> NumCells(s), groups |-> g, checks |-> c] :
        s \in SeqsUpTo(SampleNumbers, MaxLen - 1), g \in {<<>>}, c \in EngineChecks}
    \cup UNION {{[values |-> NumCells(s), groups |-> g, checks |-> c] :
                    g \in LabelColumns(Len(s)), c \in EngineChecks} :
                s \in {<<1, 5>>, <<0, 1, 5>>, Example100, ExamplePlain}}
    \cup {[values |-> LongSample(n), groups |-> <<>>, checks |-> ChecksSet(TRUE, FALSE, FALSE)] :
            n \in {MaxNormalityN, MaxNormalityN + 1}}

\* checkAssumptions with nothing cached for the payload.
CallCheckAssumptions ==
    /\ fn = "checkAssumptions"
    /\ ~applied
    /\ applied' = TRUE
    /\ ret' = ComputeAssumptions(arg.values, arg.groups, arg.checks)
    /\ UNCHANGED <<fn, arg, coordVars, cacheVars>>

\* detectOutliers of StatisticalTests and detectOutliers of the worker.
CallDetectOutliers ==
    /\ fn = "detectOutliers"
    /\ ~applied
    /\ applied' = TRUE
    /\ ret' = [main |-> detectOutliers(NumCells(arg)),
               worker |-> WorkerDetectOutliers(NumCells(arg))]
    /\ UNCHANGED <<fn, arg, coordVars, cacheVars>>

\* Wizard selections: every value a slot's cards offer, and the unset slot.
Designs == {"", "comparison", "association", "prediction"}
Characteristics == {"", "continuous-normal", "continuous-nonnormal", "categorical", "ordinal"}
SampleKinds == {"", "independent", "paired"}
GroupChoices == {"", "2", "3+", "variable"}

Selections ==
    {Selection(d, c, sm, g) : d \in Designs, c \in Characteristics, sm \in SampleKinds,
                              g \in GroupChoices}

\* A table's group and value columns with n rows spread over k groups in turn.
GroupNames == <<"A", "B", "C", "D">>
ColumnsOf(k, n) ==
    DataInfo([i \in 1..n |-> GroupNames[((i - 1) % k) + 1]], [i \in 1..n |-> NumCell(i)])

LargeN == 30         \* a sample size no catalog entry finds too small

DataInfos ==
    {NoDataInfo, ColumnsOf(1, 0), ColumnsOf(1, 1), ColumnsOf(1, 4), ColumnsOf(2, 2),
     ColumnsOf(2, 12), ColumnsOf(2, LargeN), ColumnsOf(3, 3), ColumnsOf(3, LargeN),
     ColumnsOf(4, LargeN + 1)}

RecommendationInputs == {[selections |-> sel, dataInfo |-> d] : sel \in Selections, d \in DataInfos}

CallGetRecommendations ==
    /\ fn = "getRecommendations"
    /\ ~applied
    /\ applied' = TRUE
    /\ ret' = getRecommendations(arg.selections, arg.dataInfo)
    /\ UNCHANGED <<fn, arg, coordVars, cacheVars>>

\* A table with one group more than one-way ANOVA's maxGroups, two rows each.
ManyGroups ==
    LET k == getTestById("one-way-anova").maxGroups + 1
    IN ArrayOf([i \in 1..(2 * k) |-> Row(ToString(((i - 1) % k) + 1), NumCell(i))])

\* Tables of as many rows as the chi-square entry asks for: two categorical
\* columns, and a categorical with a numeric column.
TwoCategorical ==
    ArrayOf([i \in 1..getTestById("chi-square-independence").minSampleSize |->
                Row(GroupNames[((i - 1) % 2) + 1], Str(IF i % 3 = 0 THEN "yes" ELSE "no"))])
CategoricalNumeric ==
    ArrayOf([i \in 1..getTestById("chi-square-independence").minSampleSize |->
                Row(GroupNames[((i - 1) % 2) + 1], NumCell(i % 3))])

RunTestInputs ==
    {[testId |-> t, data |-> d, categoricalColumn |-> c[1], numericalColumn |-> c[2]] :
        t \in ModelledTestIds,
        d \in Datasets \cup {ManyGroups, TwoCategorical, CategoricalNumeric},
        c \in ColumnChoices}

CallRunTest ==
    /\ fn = "runTest"
    /\ ~applied
    /\ applied' = TRUE
    /\ ret' = runTest(arg.testId, arg.data, arg.categoricalColumn, arg.numericalColumn)
    /\ UNCHANGED <<fn, arg, coordVars, cacheVars>>

\* Group labels that put the values into two and into three groups in turn.
ThreeLabels(n) == [i \in 1..n |-> GroupNames[((i - 1) % 3) + 1]]
PairLabels(n) == [i \in 1..n |-> GroupNames[((i - 1) % 2) + 1]]

\* The ranks the four ranking routines give to the values of a sample, and the
\* tie correction of the sample (the Mann-Whitney loop is reached with two
\* groups, the Kruskal-Wallis loop with three).
CallCalculateRanks ==
    /\ fn = "calculateRanks"
    /\ ~applied
    /\ applied' = TRUE
    /\ ret' = [ranks |-> calculateRanks(arg),
               worker |-> WorkerCalculateRanks(arg),
               mannWhitney |-> IF Len(arg) >= 2
                               THEN MannWhitneyRanks(arg, PairLabels(Len(arg))) ELSE <<>>,
               kruskalWallis |-> IF Len(arg) >= 3
                                 THEN KruskalWallisRanks(arg, ThreeLabels(Len(arg))) ELSE <<>>,
               tieCorrection |-> calculateTieCorrection([i \in 1..Len(arg) |-> [value |-> arg[i]]])]
    /\ UNCHANGED <<fn, arg, coordVars, cacheVars>>

\* Groups of up to MaxGroupLen values for the ANOVA routines, and the documented
\* example of three constant groups.
MaxGroupLen == 2
GroupValues == {0, 1}
AnovaGroupCount == 3
ConstantGroups == <<<<10, 10, 10, 10>>, <<10, 10, 10, 10>>, <<10, 10, 10, 10>>>>
GroupSamples == UNION {SeqsOfLen(GroupValues, k) : k \in 1..MaxGroupLen}
AnovaInputs == SeqsOfLen(GroupSamples, AnovaGroupCount) \cup {ConstantGroups}

RECURSIVE Flatten(_)
\* groups.flat()
Flatten(groups) == IF groups = <<>> THEN <<>> ELSE Head(groups) \o Flatten(Tail(groups))

\* The label of group g repeated for each of its values.
GroupLabelsOf(groups) ==
    Flatten([g \in 1..Len(groups) |-> [i \in 1..Len(groups[g]) |-> ToString(g)]])

\* One-way ANOVA on the same groups by the main-thread and the worker routine.
CallAnova ==
    /\ fn = "anova"
    /\ ~applied
    /\ applied' = TRUE
    /\ ret' = [main |-> runOneWayANOVA(Flatten(arg), GroupLabelsOf(arg)),
               worker |-> WorkerAnova(arg)]
    /\ UNCHANGED <<fn, arg, coordVars, cacheVars>>

\* Paired samples of up to MaxPairs pairs, and two of twelve pairs: distinct
\* differences, and differences of one size with as many up as down.
MaxPairs == 3
PairValues == {0, 1, 2}
TwelveDistinct == [first |-> [i \in 1..12 |-> i], second |-> [i \in 1..12 |-> 0]]
TwelveBalanced == [first |-> [i \in 1..12 |-> i % 2], second |-> [i \in 1..12 |-> (i + 1) % 2]]
PairedInputs ==
    UNION {[first : SeqsOfLen(PairValues, k), second : SeqsOfLen(PairValues, k)] : k \in 1..MaxPairs}
        \cup {TwelveDistinct, TwelveBalanced}

\* The Wilcoxon signed-rank statistics of a paired sample: the rows of the
\* first group followed by those of the second.
CallWilcoxon ==
    /\ fn = "wilcoxon"
    /\ ~applied
    /\ applied' = TRUE
    /\ ret' = WilcoxonStatistics(arg.first \o arg.second,
                                 [i \in 1..Len(arg.first) |-> "A"] \o [i \in 1..Len(arg.second) |-> "B"])
    /\ UNCHANGED <<fn, arg, coordVars, cacheVars>>

\* Two samples for the Mann-Whitney test: the paired inputs read as two
\* groups, and two with a group of 21 values.
TwentyOneDistinct == [first |-> [i \in 1..21 |-> i], second |-> <<0>>]
TwentyOneEqual == [first |-> [i \in 1..21 |-> 1], second |-> <<1>>]
TwoSampleInputs == PairedInputs \cup {TwentyOneDistinct, TwentyOneEqual}

CallMannWhitney ==
    /\ fn = "mannWhitney"
    /\ ~applied
    /\ applied' = TRUE
    /\ ret' = MannWhitneyStatistics(arg.first \o arg.second,
                                    [i \in 1..Len(arg.first) |-> "A"] \o [i \in 1..Len(arg.second) |-> "B"])
    /\ UNCHANGED <<fn, arg, coordVars, cacheVars>>

InitEngine ==
    /\ InitApp
    /\ workerSupported
    /\ applied = FALSE
    /\ ret = <<>>
    /\ \/ fn = "checkAssumptions" /\ arg \in AssumptionInputs
       \/ fn = "detectOutliers" /\ arg \in Samples
       \/ fn = "getRecommendations" /\ arg \in RecommendationInputs
       \/ fn = "runTest" /\ arg \in RunTestInputs
       \/ fn = "calculateRanks" /\ arg \in Samples
       \/ fn = "anova" /\ arg \in AnovaInputs
       \/ fn = "wilcoxon" /\ arg \in PairedInputs
       \/ fn = "mannWhitney" /\ arg \in TwoSampleInputs

NextEngine ==
    \/ CallCheckAssumptions
    \/ CallDetectOutliers
    \/ CallGetRecommendations
    \/ CallRunTest
    \/ CallCalculateRanks
    \/ CallAnova
    \/ CallWilcoxon
    \/ CallMannWhitney

SpecEngine == InitEngine /\ [][NextEngine]_vars

\* =========================================================================
\* The state manager and the wizard
\* =========================================================================
\* Values assigned to state.data: no array, arrays within and beyond the limits,
\* rows that are no plain objects, rows with differing columns.
NotAnArray == [kind |-> "object", rows |-> <<>>]
ColumnNames(n) == {"c" \o ToString(i) : i \in 1..n}
WideRow == [c \in ColumnNames(maxColumns + 1) |-> NumCell(1)]
FullRow == [c \in ColumnNames(maxColumns) |-> NumCell(1)]
TooManyRows == ArrayOf([i \in 1..(maxRows + 1) |-> Row("A", NumCell(1))])
TooManyColumns == ArrayOf(<<WideRow>>)
AllColumns == ArrayOf(<<FullRow>>)
WideSecondRow == ArrayOf(<<Row("A", NumCell(1)), WideRow>>)
MissingColumn == ArrayOf(<<Row("A", NumCell(1)), [g |-> "B"]>>)
OtherColumn == ArrayOf(<<Row("A", NumCell(1)), [g |-> "B", w |-> NumCell(2)]>>)
NoObjectRow == ArrayOf(<<Row("A", NumCell(1)), NotAnObject>>)
NoObjectFirst == ArrayOf(<<NotAnObject>>)
ForeignRow == ArrayOf(<<Row("A", NumCell(1)), ForeignPrototype>>)
SetterInputs ==
    {NullData, NotAnArray, EmptyData, TwoGroups, OneGroup, WithText, TooManyRows,
     TooManyColumns, AllColumns, WideSecondRow, MissingColumn, OtherColumn, NoObjectRow,
     NoObjectFirst, ForeignRow}

\* state.data = d: what the setter stored, and whether it threw.
SetData(d) ==
    LET set == DataSetter(data, metadata, d)
    IN /\ data' = set.data
       /\ metadata' = set.metadata
       /\ fn' = "set data"
       /\ arg' = d
       /\ ret' = [threw |-> set.threw, before |-> data]
       /\ applied' = TRUE
       /\ UNCHANGED <<selectedTest, results, workerBusy, workerSupported, statsWorker,
                      workers, reqs, destroyed, wizardSelections, cacheVars>>

\* state.reset(), as clearData calls it: the user interface object is not touched.
Reset ==
    /\ ResetState
    /\ fn' = "reset"
    /\ arg' = <<>>
    /\ ret' = <<>>
    /\ applied' = TRUE
    /\ UNCHANGED <<workerSupported, statsWorker, workers, reqs, destroyed, wizardSelections,
                   cacheVars>>

InitState == Init /\ workerSupported

NextState ==
    \/ \E d \in SetterInputs : SetData(d)
    \/ Reset

SpecState == InitState /\ [][NextState]_vars

\* The option cards of the four wizard steps.
WizardOptions ==
    ({"step-1"} \X (Designs \ {""})) \cup ({"step-2"} \X (Characteristics \ {""}))
        \cup ({"step-3"} \X (SampleKinds \ {""})) \cup ({"step-4"} \X (GroupChoices \ {""}))

\* selectWizardOption: the clicked card's value goes into its step's slot.
SelectWizardOption(stepId, value) ==
    /\ wizardSelections' = updateWizardState(wizardSelections, stepId, value)
    /\ fn' = "updateWizardState"
    /\ arg' = <<stepId, value>>
    /\ ret' = <<>>
    /\ applied' = TRUE
    /\ UNCHANGED <<data, metadata, selectedTest, results, workerBusy, workerSupported,
                   statsWorker, workers, reqs, destroyed, cacheVars>>

NextWizard ==
    \/ \E o \in WizardOptions : SelectWizardOption(o[1], o[2])
    \/ Reset

SpecWizard == InitState /\ [][NextWizard]_vars

\* =========================================================================
\* Properties
\* =========================================================================
Reqs == 1..Len(reqs)
Workers == 1..Len(workers)

\* Request r's message, or the reply to it, is queued at worker w.
QueuedAt(r, w) ==
    \/ \E i \in 1..Len(workers[w].inbox) : workers[w].inbox[i].req = r
    \/ \E i \in 1..Len(workers[w].outbox) : workers[w].outbox[i].req = r

\* The computation of request r is outstanding: dispatched to a worker that
\* still runs, and its reply has not been delivered.
Outstanding(r) == \E w \in Workers : workers[w].alive /\ QueuedAt(r, w)

\* Every reply posted by a worker and not yet delivered.
Replies ==
    UNION {{workers[w].outbox[i] : i \in 1..Len(workers[w].outbox)} : w \in Workers}

\* What runTest gives on the inputs a message carries.
DirectFor(msg) == runTest(msg.testId, msg.data, msg.catColumn, msg.numColumn)

\* The test ids handleTestRequest has a case for.
WorkerTestIds == {"independent-t-test", "paired-t-test", "one-way-anova",
                  "pearson-correlation"}

\* C1: at most one computation dispatched to the worker is outstanding at any
\* time, over every interleaving of requests, responses, timeouts and resets.
C1_AtMostOneOutstanding == Cardinality({r \in Reqs : Outstanding(r)}) <= 1

\* C2: the worker's reply to a request is the outcome runTest gives on the same
\* inputs: the same results, or an error with the same message.
C2_SameOutcomeOnBothPaths ==
    \A item \in Replies :
        LET direct == DirectFor(item.sent)
        IN IF direct.kind = "results"
           THEN item.reply.action = "testComplete" /\ item.reply.results = direct
           ELSE item.reply.action = "error" /\ item.reply.error = direct.error

\* C3: the worker reads the test id, dataset and columns that were sent, and
\* replies testComplete for a supported test id on a dataset valid for it.
C3_MessageReadAsSent ==
    \A item \in Replies :
        /\ item.read.testId = item.sent.testId
        /\ item.read.data = item.sent.data
        /\ item.read.catColumn = item.sent.catColumn
        /\ item.read.numColumn = item.sent.numColumn
        /\ (item.sent.testId \in WorkerTestIds /\ DirectFor(item.sent).kind = "results")
              => item.reply.action = "testComplete"

\* C4: once the reply to a request has arrived before its timeout, the
\* request's timer is cleared and the request is settled, by that reply.
C4_ResponseSettlesItsRequest ==
    \A r \in Reqs :
        (reqs[r].answered /\ ~reqs[r].answeredLate)
            => /\ reqs[r].timer = "cleared"
               /\ reqs[r].status \in {"resolved", "rejected"}
               /\ reqs[r].settledBy = r

\* C5: after the timer of a request has fired, the worker it was sent to is
\* terminated and a newer worker has taken its place, the request is rejected
\* with the timeout error, and nothing of its computation reaches the main
\* thread any more: no reply to it is queued at a running worker, none was
\* delivered after the timeout, and no result of it was stored.
C5_TimeoutAbandonsComputation ==
    \A r \in Reqs :
        reqs[r].timer = "fired"
            => /\ ~workers[reqs[r].worker].alive
               /\ statsWorker > reqs[r].worker
               /\ reqs[r].status = "rejected"
               /\ reqs[r].outcome = Thrown(ErrTimeout)
               /\ ~Outstanding(r)
               /\ ~reqs[r].answeredLate
               /\ ~reqs[r].stored

\* The timer of a request fired after the worker had been handed its message,
\* and a later request was sent to the restarted worker.
C5_Witness ==
    \E r \in Reqs :
        /\ reqs[r].timer = "fired"
        /\ reqs[r].status = "rejected"
        /\ \E q \in Reqs : q > r /\ reqs[q].path = "worker" /\ reqs[q].worker > reqs[r].worker

C7_DirectWhenNoWorkerOrBusy ==
    \A r \in Reqs :
        (~reqs[r].hadWorker \/ reqs[r].wasBusy)
            => /\ reqs[r].path = "direct"
               /\ reqs[r].status \in {"resolved", "rejected"}
               /\ reqs[r].outcome = reqs[r].direct
               /\ \A w \in Workers : ~QueuedAt(r, w)

\* A request issued while an offloaded one was outstanding got results directly.
C7_Witness ==
    \E r \in Reqs :
        /\ reqs[r].hadWorker
        /\ reqs[r].wasBusy
        /\ reqs[r].status = "resolved"
        /\ \E q \in Reqs : q < r /\ Outstanding(q)

\* C8: the result of every run that completed without error was stored as the
\* current result, and no earlier request's late response replaced the result
\* of a later one.
C8_CompletedRunBecomesCurrent ==
    /\ \A r \in Reqs : reqs[r].status = "resolved" => reqs[r].stored
    /\ \A r \in Reqs : ~reqs[r].storedLate

\* C9: the result of a checkAssumptions call has an entry only for a check
\* requested in that call.
C9_OnlyRequestedChecks ==
    lastCall.made
        => /\ lastCall.returned.normality.present => lastCall.checks.normality
           /\ lastCall.returned.homogeneity.present => lastCall.checks.homogeneity
           /\ lastCall.returned.outliers.present => lastCall.checks.outliers

\* The state part of C10, about the latest call.
C10_LatestCall ==
    lastCall.made =>
        /\ lastCall.fromCache
              => /\ lastCall.hadEntry
                 /\ lastCall.entryValues = lastCall.values
                 /\ lastCall.entryGroups = lastCall.groups
                 /\ lastCall.at - lastCall.entryTime < CacheTtlMs
        /\ (lastCall.hadEntry /\ lastCall.at - lastCall.entryTime >= CacheTtlMs)
              => ~lastCall.fromCache
        /\ ~lastCall.fromCache
              => /\ lastCall.returned =
                        ComputeAssumptions(lastCall.values, lastCall.groups, lastCall.checks)
                 /\ \E e \in assumptionsCache :
                        /\ e.key = CacheKey(lastCall.values, lastCall.groups)
                        /\ e.timestamp = lastCall.at
                        /\ e.results = lastCall.returned

\* The step part of C10: an entry that keeps its timestamp keeps its results.
C10_EntryKept ==
    \A e \in assumptionsCache : \A f \in assumptionsCache' :
        (f.key = e.key /\ f.timestamp = e.timestamp) => f.results = e.results

\* C10: a cached result is returned only for the same values/groups payload
\* and less than 300000 ms after its insertion; an older entry is recomputed
\* and replaced with the current time; a stored entry's results never change
\* between insertion and replacement.
C10_CacheWindow == []C10_LatestCall /\ [][C10_EntryKept]_vars

\* An entry five minutes old or older was found, recomputed and replaced.
C10_Witness ==
    /\ lastCall.made
    /\ lastCall.hadEntry
    /\ ~lastCall.fromCache
    /\ lastCall.returned # NoAssumptions

\* C11: a checkAssumptions call that requests the normality check for a sample
\* of fewer than 3 or more than 5000 values returns a normality entry that is
\* marked inapplicable, with null statistic and null pass flag.
C11_NormalityReportedInapplicable ==
    (fn = "checkAssumptions" /\ applied /\ arg.checks.normality
        /\ (Len(arg.values) < 3 \/ Len(arg.values) > 5000))
        => /\ ret.normality.present
           /\ ret.normality.result = "inapplicable"
           /\ ret.normality.statistic = "null"
           /\ ret.normality.passed = "null"

\* C12: the homogeneity check on at least 2 distinct groups returns a statistic
\* and a pass flag that are not null; on fewer than 2 distinct groups it returns
\* the inapplicable entry.
C12_HomogeneityComputed ==
    (fn = "checkAssumptions" /\ applied /\ arg.checks.homogeneity /\ Len(arg.groups) > 0)
        => /\ ret.homogeneity.present
           /\ IF Cardinality({arg.groups[i] : i \in 1..Len(arg.groups)}) >= 2
              THEN /\ ret.homogeneity.result = "computed"
                   /\ ret.homogeneity.statistic = "value"
                   /\ ret.homogeneity.passed \in {"true", "false"}
              ELSE /\ ret.homogeneity.result = "inapplicable"
                   /\ ret.homogeneity.statistic = "null"
                   /\ ret.homogeneity.passed = "null"

\* The <<value, index>> pairs of nums below Q1 - 1.5 IQR or above Q3 + 1.5 IQR,
\* Q1 and Q3 the linear-interpolation percentiles at position (p/100)(n-1) of
\* the sorted values (all quantities times 8, so that they are integers for 25
\* and 75).
FenceOutliers(nums) ==
    LET n == Len(nums)
        sorted == SortAsc(nums)
        Q4(p) == LET pos4 == (p \div 25) * (n - 1)      \* position times 4
                     k == pos4 \div 4
                     f == pos4 % 4
                 IN IF f = 0 THEN 4 * sorted[k + 1]
                    ELSE (4 - f) * sorted[k + 1] + f * sorted[k + 2]
        q1 == Q4(25)
        q3 == Q4(75)
        low8 == 2 * q1 - 3 * (q3 - q1)
        high8 == 2 * q3 + 3 * (q3 - q1)
    IN {<<nums[i], i - 1>> : i \in {j \in 1..n : 8 * nums[j] < low8 \/ 8 * nums[j] > high8}}

SeqToSet(s) == {s[i] : i \in 1..Len(s)}

\* C13: on a sample of at least 4 numbers both implementations of outlier
\* detection return exactly the pairs outside the interpolated-quartile fence,
\* and the main-thread result passes iff there is none.
C13_OutliersOutsideFence ==
    (fn = "detectOutliers" /\ applied /\ Len(arg) >= 4)
        => /\ SeqToSet(ret.main.outliers) = FenceOutliers(arg)
           /\ Len(ret.main.outliers) = Cardinality(FenceOutliers(arg))
           /\ ret.main.passed = PassFlag(FenceOutliers(arg) = {})
           /\ SeqToSet(ret.worker) = FenceOutliers(arg)

\* The catalog entries, and the position of an entry in the catalog.
CatalogEntries == {testsDatabase[i] : i \in 1..Len(testsDatabase)}
CatalogIndex(test) == CHOOSE i \in 1..Len(testsDatabase) : testsDatabase[i] = test

\* Number of distinct group labels observed in the data.
ObservedGroups(dataInfo) == Cardinality({dataInfo.groups[i] : i \in 1..Len(dataInfo.groups)})

\* The additive score of a catalog entry as the scoring rules state it.
AdditiveScore(test, sel, dataInfo) ==
    LET designMatch == sel.design \in {"comparison", "association", "prediction"}
                       /\ sel.design = test.type
        characteristicMatch ==
            \/ sel.characteristics = "continuous-normal" /\ test.category = "parametric"
            \/ sel.characteristics \in {"continuous-nonnormal", "ordinal"}
               /\ test.category = "nonparametric"
            \/ sel.characteristics = "categorical" /\ test.id = "chi-square-independence"
        relationshipMatch ==
            \/ sel.samples = "independent" /\ test.id = "independent-t-test"
            \/ sel.samples = "paired" /\ test.id \in {"paired-t-test", "wilcoxon-signed-rank"}
        groupCountMatch ==
            \/ sel.groups = "2" /\ test.minGroups = 2 /\ test.maxGroups = 2
            \/ sel.groups = "3+" /\ test.minGroups >= 3
            \/ sel.groups = "variable" /\ test.minGroups = 0
        observed == dataInfo.kind # "null"
        outsideRange == /\ observed
                        /\ test.minGroups > 0
                        /\ \/ ObservedGroups(dataInfo) < test.minGroups
                           \/ ObservedGroups(dataInfo) > test.maxGroups
        tooSmall == observed /\ Len(dataInfo.values) < test.minSampleSize
    IN (IF designMatch THEN 3 ELSE 0) + (IF characteristicMatch THEN 2 ELSE 0)
       + (IF relationshipMatch THEN 2 ELSE 0) + (IF groupCountMatch THEN 2 ELSE 0)
       - (IF outsideRange THEN 5 ELSE 0) - (IF tooSmall THEN 3 ELSE 0)

\* C14: getRecommendations returns at most 3 entries, each a catalog entry with
\* a strictly positive score equal to the additive formula.
C14_ScoresFollowFormula ==
    (fn = "getRecommendations" /\ applied)
        => /\ Len(ret) <= 3
           /\ \A i \in 1..Len(ret) :
                 /\ ret[i].test \in CatalogEntries
                 /\ ret[i].score > 0
                 /\ ret[i].score = AdditiveScore(ret[i].test, arg.selections, arg.dataInfo)

\* Three entries are returned, one of them with a data penalty in its score.
C14_Witness ==
    /\ fn = "getRecommendations"
    /\ applied
    /\ Len(ret) = 3
    /\ \E i \in 1..Len(ret) :
          ret[i].score < AdditiveScore(ret[i].test, arg.selections, NoDataInfo)

\* The catalog entries whose additive score is positive.
PositiveEntries(sel, dataInfo) == {t \in CatalogEntries : AdditiveScore(t, sel, dataInfo) > 0}

\* Entry a is ranked before entry b: higher score, or equal score and earlier
\* in the catalog.
RankedBefore(a, b, sel, dataInfo) ==
    \/ AdditiveScore(a, sel, dataInfo) > AdditiveScore(b, sel, dataInfo)
    \/ /\ AdditiveScore(a, sel, dataInfo) = AdditiveScore(b, sel, dataInfo)
       /\ CatalogIndex(a) < CatalogIndex(b)

\* C15: the returned list is the first three of the positive-score entries in
\* the order of descending score, equal scores in catalog order: its entries are
\* in that order, there are min(3, number of positive entries) of them, and every
\* omitted positive entry is ranked after every returned one.
C15_TopThreeInOrder ==
    (fn = "getRecommendations" /\ applied)
        => LET sel == arg.selections
               d == arg.dataInfo
               returned == {ret[i].test : i \in 1..Len(ret)}
           IN /\ returned \subseteq PositiveEntries(sel, d)
              /\ Len(ret) = Min2(3, Cardinality(PositiveEntries(sel, d)))
              /\ \A i, j \in 1..Len(ret) : i < j => RankedBefore(ret[i].test, ret[j].test, sel, d)
              /\ \A t \in PositiveEntries(sel, d) \ returned :
                    \A i \in 1..Len(ret) : RankedBefore(ret[i].test, t, sel, d)

\* More than three entries have a positive score, a later catalog entry outranks
\* an earlier one, and two returned entries have equal scores.
C15_Witness ==
    /\ fn = "getRecommendations"
    /\ applied
    /\ Cardinality(PositiveEntries(arg.selections, arg.dataInfo)) > 3
    /\ \E i, j \in 1..Len(ret) :
          i < j /\ CatalogIndex(ret[i].test) > CatalogIndex(ret[j].test)
    /\ \E i, j \in 1..Len(ret) : i < j /\ ret[i].score = ret[j].score

\* The case of C16: a comparison of a continuous, normal measure between 2
\* groups, on data with exactly 2 distinct groups and at least 30 values.
TwoGroupComparison ==
    /\ fn = "getRecommendations"
    /\ applied
    /\ arg.selections.design = "comparison"
    /\ arg.selections.characteristics = "continuous-normal"
    /\ arg.selections.groups = "2"
    /\ arg.dataInfo.kind # "null"
    /\ ObservedGroups(arg.dataInfo) = 2
    /\ Len(arg.dataInfo.values) >= 30

\* C16 as stated: in that case the first recommendation is the independent
\* t-test with a score of at least 7, whatever the sample-relationship slot holds.
C16_IndependentTTestFirst ==
    TwoGroupComparison
        => /\ Len(ret) >= 1
           /\ ret[1].test.id = "independent-t-test"
           /\ ret[1].score >= 7

\* C16 amended: in that case the independent t-test is recommended with a score
\* of at least 7; it is the first recommendation when the sample-relationship
\* slot is unset or 'independent', and the second, after the paired t-test,
\* when the slot holds 'paired'.
C16_IndependentTTestRecommended ==
    TwoGroupComparison
        => LET place == IF arg.selections.samples = "paired" THEN 2 ELSE 1
           IN /\ Len(ret) >= place
              /\ ret[place].test.id = "independent-t-test"
              /\ ret[place].score >= 7
              /\ arg.selections.samples = "paired" => ret[1].test.id = "paired-t-test"

\* The case with the sample-relationship slot unset.
C16_Witness ==
    /\ TwoGroupComparison
    /\ arg.selections.samples = ""
    /\ ret[1].test.id = "independent-t-test"

\* A runTest call on a table with rows, with both column names present.
RunOnTable ==
    /\ fn = "runTest"
    /\ applied
    /\ arg.data.kind = "array"
    /\ Len(arg.data.rows) > 0
    /\ arg.categoricalColumn \in Columns
    /\ arg.numericalColumn \in Columns

\* Number of distinct group labels in the rows.
DistinctGroups(rows) == Cardinality({rows[i].g : i \in 1..Len(rows)})

\* Number of rows whose numeric cell holds a number.
NumericCount(rows) == Cardinality({i \in 1..Len(rows) : rows[i].v.t \in {"num", "numstr"}})

\* C17: runTest of a group-based test fails with an error when the number of
\* distinct groups is not allowed by the catalog entry (not exactly 2 for a
\* two-group test, outside minGroups..maxGroups otherwise) or when there are
\* fewer valid numeric values than minSampleSize.
C17_DisallowedDataRejected ==
    (RunOnTable /\ getTestById(arg.testId).minGroups > 0)
        => LET test == getTestById(arg.testId)
               k == DistinctGroups(arg.data.rows)
               notAllowed == k < test.minGroups \/ k > test.maxGroups
               tooFew == NumericCount(arg.data.rows) < test.minSampleSize
           IN (notAllowed \/ tooFew) => ret.kind = "error"

\* C18: runTest on a table in which some row's numeric-column cell is present
\* but is not a number fails with an error.
C18_NonNumericRejected ==
    (RunOnTable /\ \E i \in 1..Len(arg.data.rows) : arg.data.rows[i].v.t = "text")
        => ret.kind = "error"

AllDistinct(s) == \A i, j \in 1..Len(s) : i # j => s[i] # s[j]

\* C19: the ranks calculateRanks gives to n numbers sum to n(n+1)/2, and
\* calculateTieCorrection of the same values is 0 iff the values are distinct
\* (ranks are kept times 2).
C19_RankSumAndTieCorrection ==
    (fn = "calculateRanks" /\ applied)
        => /\ Len(ret.ranks) = Len(arg)
           /\ SumSeq(ret.ranks) = Len(arg) * (Len(arg) + 1)
           /\ (ret.tieCorrection.num = 0) <=> AllDistinct(arg)
           /\ ret.tieCorrection.den > 0

\* A sample with tied values has been ranked.
C19_Witness ==
    /\ fn = "calculateRanks"
    /\ applied
    /\ Len(arg) >= 3
    /\ ~AllDistinct(arg)
    /\ ret.tieCorrection.num > 0
    /\ \E i \in 1..Len(arg) : ret.ranks[i] % 2 = 1

\* The midrank of the value v in the sample s, times 2: the mean of the
\* positions its occurrences take in the sorted sample.
Midrank2(s, v) ==
    2 * Cardinality({i \in 1..Len(s) : s[i] < v}) + Cardinality({i \in 1..Len(s) : s[i] = v}) + 1

\* C20: the Mann-Whitney loop, the Kruskal-Wallis loop, calculateRanks and the
\* worker's calculateRanks give every value of a sample the same rank, its midrank.
C20_SameMidrankEverywhere ==
    (fn = "calculateRanks" /\ applied)
        => /\ \A i \in 1..Len(arg) :
                 /\ ret.ranks[i] = Midrank2(arg, arg[i])
                 /\ ret.worker[i] = Midrank2(arg, arg[i])
           /\ Len(arg) >= 2
                 => /\ Len(ret.mannWhitney) = Len(arg)
                    /\ SeqToSet(ret.mannWhitney) = {<<arg[i], Midrank2(arg, arg[i])>> : i \in 1..Len(arg)}
           /\ Len(arg) >= 3
                 => /\ Len(ret.kruskalWallis) = Len(arg)
                    /\ SeqToSet(ret.kruskalWallis) = {<<arg[i], Midrank2(arg, arg[i])>> : i \in 1..Len(arg)}

\* A sample with a tie of two and a tie of three went through all four routines.
C20_Witness ==
    /\ fn = "calculateRanks"
    /\ applied
    /\ Len(arg) >= 5
    /\ \E v, w \in SeqToSet(arg) :
          /\ Cardinality({i \in 1..Len(arg) : arg[i] = v}) = 2
          /\ Cardinality({i \in 1..Len(arg) : arg[i] = w}) = 3
    /\ Len(ret.mannWhitney) = Len(arg)
    /\ Len(ret.kruskalWallis) = Len(arg)

\* The groups of an ANOVA input all have the same mean.
SameMeans(groups) ==
    \A g, h \in 1..Len(groups) :
        SumSeq(groups[g]) * Len(groups[h]) = SumSeq(groups[h]) * Len(groups[g])

IsZero(x) == x.kind = "number" /\ x.num = 0

\* C21: one-way ANOVA on 3 or more groups with the same mean yields
\* ssBetween = 0, F = 0 and p-value 1, constant groups included.
C21_EqualMeansGiveZeroF ==
    (fn = "anova" /\ applied /\ SameMeans(arg))
        => /\ ~ret.main.threw
           /\ IsZero(ret.main.statistics.ssBetween)
           /\ IsZero(ret.main.statistics.f)
           /\ ret.main.pValue = "1"
           /\ IsZero(ret.worker.statistics.ssBetween)
           /\ IsZero(ret.worker.statistics.f)
           /\ ret.worker.pValue = "1"

\* C22: in the Wilcoxon test the nonzero absolute differences get midranks
\* within 1..nPairs, W+ + W- = nPairs(nPairs+1)/2 and W = min(W+, W-), zero
\* differences included in the input or not (ranks are kept times 2).
C22_ZeroDifferencesDroppedBeforeRanking ==
    (fn = "wilcoxon" /\ applied)
        => /\ \A k \in 1..Len(ret.signedRanks) :
                 /\ ret.signedRanks[k].rank >= 2
                 /\ ret.signedRanks[k].rank <= 2 * ret.nPairs
           /\ ret.wPlus + ret.wMinus = ret.nPairs * (ret.nPairs + 1)
           /\ ret.w = Min2(ret.wPlus, ret.wMinus)

\* The two samples of the input as a table with group column g and value column v.
TableOf(samples) ==
    ArrayOf([i \in 1..Len(samples.first) |-> Row("A", NumCell(samples.first[i]))]
            \o [i \in 1..Len(samples.second) |-> Row("B", NumCell(samples.second[i]))])

\* C30: for every input that passes validation the Mann-Whitney and the
\* Wilcoxon result carry an effect size r that is a number, on the
\* small-sample branch as on the normal-approximation branch.
C30_EffectSizeDefined ==
    /\ (fn = "mannWhitney" /\ applied
            /\ validateDataForTest("mann-whitney", TableOf(arg), "g", "v") = <<>>)
        => ret.r = "number"
    /\ (fn = "wilcoxon" /\ applied
            /\ validateDataForTest("wilcoxon-signed-rank", TableOf(arg), "g", "v") = <<>>)
        => ret.r = "number"

\* The stored dataset is absent or empty.
NoRows == data.kind # "array" \/ Len(data.rows) = 0

\* C23: after every assignment to the dataset and after every reset the
\* metadata describes the stored dataset: null iff there is no dataset or an
\* empty one, otherwise with the row count, columns and column types of the
\* stored rows.
C23_MetadataDescribesDataset ==
    /\ (metadata.kind = "null") <=> NoRows
    /\ metadata.kind # "null" => metadata = MetadataOf(data)

\* The array d is within the row and column limits and all its rows have the
\* same columns.
WithinLimits(d) ==
    /\ d.kind = "array"
    /\ Len(d.rows) <= maxRows
    /\ \A i \in 1..Len(d.rows) :
          /\ Cardinality(Keys(d.rows[i])) <= maxColumns
          /\ Keys(d.rows[i]) = Keys(d.rows[1])

\* C24: a stored dataset has at most maxRows rows, at most maxColumns columns
\* in every row and the same columns in all rows; an array violating one of
\* these is rejected with an error and the stored dataset stays as it was.
C24_StoredDatasetWithinLimits ==
    /\ data.kind = "array" => WithinLimits(data)
    /\ (fn = "set data" /\ applied /\ ~WithinLimits(arg))
          => (ret.threw /\ data = ret.before)

\* C25: after a reset all four wizard slots are empty.
C25_ResetClearsWizard ==
    (fn = "reset" /\ applied) => getWizardSelections(wizardSelections) = Selection("", "", "", "")

\* The timer of request r fires in this step.
TimerFires(r) == reqs[r].timer = "armed" /\ reqs'[r].timer = "fired"

\* C26: a request settled by a worker message is settled by the reply to its
\* own message, and the timeout of a request never terminates the worker while
\* the message of another request is waiting at it or being computed.
C26_RepliesAndTimeoutsStayWithTheirRequest ==
    /\ [](\A r \in Reqs : reqs[r].settledBy \in {0, r})
    /\ [][\A r \in Reqs :
             (TimerFires(r) /\ statsWorker # 0)
                 => \A k \in 1..Len(workers[statsWorker].inbox) :
                        workers[statsWorker].inbox[k].req = r]_vars

\* A request is issued in this step and goes to the worker.
Offloaded == Len(reqs') = Len(reqs) + 1 /\ reqs'[Len(reqs')].path = "worker"

\* C27: after destroy() no worker is running and none is created later, not
\* even by the timer of a request that was outstanding at destroy time, and no
\* request is posted to a terminated worker.
C27_NoWorkerAfterDestroy ==
    /\ [](destroyed => \A w \in 1..Len(workers) : ~workers[w].alive)
    /\ [][destroyed => Len(workers') = Len(workers)]_vars
    /\ [][Offloaded => workers[statsWorker].alive]_vars

\* C28: with the data's groups and values supplied, getRecommendations returns
\* no group-based test whose range of group counts excludes the number of
\* distinct groups observed, and no test whose minimum sample size exceeds the
\* number of values.
C28_NoUnsuitableTestRecommended ==
    (fn = "getRecommendations" /\ applied /\ arg.dataInfo.kind = "object")
        => \A i \in 1..Len(ret) :
              /\ ret[i].test.minGroups > 0
                    => /\ ret[i].test.minGroups <= ObservedGroups(arg.dataInfo)
                       /\ ObservedGroups(arg.dataInfo) <= ret[i].test.maxGroups
              /\ ret[i].test.minSampleSize <= Len(arg.dataInfo.values)

\* C29: runTest('chi-square-independence') on a table of at least 20 rows whose
\* two selected columns hold categorical values returns a contingency-table
\* result.
C29_ChiSquareAcceptsCategoricalColumns ==
    (RunOnTable /\ arg.testId = "chi-square-independence"
        /\ Len(arg.data.rows) >= getTestById(arg.testId).minSampleSize
        /\ \A i \in 1..Len(arg.data.rows) : IsNaNCell(arg.data.rows[i][arg.numericalColumn]))
        => /\ ret.kind = "results"
           /\ ret.test = "Chi-Square Test of Independence"

====
